---------------------------- MODULE Spec2Model ----------------------------
(***************************************************************************)
(* Supply-chain risk analyzer: the risk-scoring engine (RiskScorer), the   *)
(* concurrent collection orchestrator (RealTimeDataCollector), the source  *)
(* collectors (api_collectors), the persistence layer (DatabaseManager)    *)
(* and the dashboard script (streamlit_app.py).                            *)
(*                                                                         *)
(* Numbers.  A score is an integer number of 1/Unit, so that every product *)
(* and quotient the scorer forms on the modelled inputs is exact: 0.1 is   *)
(* Unit \div 10.  Percentages are integers, the logistics index is in      *)
(* tenths, reliabilities, accuracies and volatilities are in hundredths.   *)
(*                                                                         *)
(* Python values.  A dict is a function from its keys; d.get(k, default)   *)
(* is Get(d, k, default).  A value that may be None is a sequence of       *)
(* length at most one: <<>> is None and <<x>> is x.  A text is the set of  *)
(* its words; "k in text" is substring search over the lowered words.      *)
(*                                                                         *)
(* Time is counted in ticks, TicksPerDay to the day.                       *)
(***************************************************************************)
EXTENDS Integers, Sequences, FiniteSets, TLC

VARIABLES
    data,       \* the bundle handed to RiskScorer.calculate_overall_risk
    clock,      \* datetime.now(), in ticks
    scores,     \* outcome of the latest call of calculate_overall_risk
    prev,       \* outcome of the call before it, on the same bundle
    assessment, \* outcome of the latest call of RiskScorer.analyze_supplier
    registry,   \* orchestrator: the keys of self.suppliers, in dict order
    pc,         \* orchestrator: position of each supplier's task
    req,        \* orchestrator: state of each upstream request
    bundle,     \* orchestrator: what each supplier's task has collected
    running,    \* orchestrator: the task that holds the event-loop thread
    result,     \* orchestrator: what get_all_suppliers_data returned
    hung,       \* orchestrator: requests the upstream never answers
    finished,   \* orchestrator: the tasks that are done, in finishing order
    col,        \* one call of a source collector of api_collectors
    label,      \* outcome of the latest call of RiskScorer.get_risk_category
    db,         \* DatabaseManager: the tables of supply_chain.db
    call,       \* DatabaseManager: outcome of the latest call of a method
    risk,       \* outcome of RealTimeDataCollector.calculate_risk_score
    app         \* the dashboard script: widget state and position of a run

scoreVars   == <<data, clock, scores, prev, assessment>>
collectVars == <<registry, pc, req, bundle, running, result, hung, finished>>
otherVars   == <<label, db, call, risk, app>>
vars        == <<data, clock, scores, prev, assessment, registry, pc, req,
                 bundle, running, result, hung, finished, col, label, db,
                 call, risk, app>>

---------------------------------------------------------------------------
(* Bounds of the model.                                                    *)

TicksPerDay == 2
Now0        == 13
MaxClock    == 17

---------------------------------------------------------------------------
(* Python helpers.                                                         *)

EmptyDict == [k \in {} |-> 0]

None == <<>>

Some(x) == <<x>>

Get(d, k, default) == IF k \in DOMAIN d THEN d[k] ELSE default

Max(a, b) == IF a >= b THEN a ELSE b

Min(a, b) == IF a <= b THEN a ELSE b

RECURSIVE MaxOf(_)
MaxOf(S) ==
    IF S = {} THEN 0
    ELSE LET x == CHOOSE y \in S : TRUE IN Max(x, MaxOf(S \ {x}))

\* str.lower() on one word.
Lower(w) ==
    CASE w = "Earthquake"   -> "earthquake"
      [] w = "Bankruptcy"   -> "bankruptcy"
      [] w = "Thunderstorm" -> "thunderstorm"
      [] w = "Rain"         -> "rain"
      [] w = "Clear"        -> "clear"
      [] OTHER              -> w

\* Python's `k in word` on lowered words: substring search.
IsSubstring(k, w) ==
    \/ k = w
    \/ <<k, w>> \in { <<"storm", "thunderstorm">>, <<"sanction", "sanctions">>,
                      <<"delay", "delays">> }

\* Python's `k in text.lower()`.
KeywordIn(k, text) == \E w \in text : IsSubstring(k, Lower(w))

\* The outcome of a call: a value, or the exception that escaped.
Ok(v) == [exc |-> "none", v |-> v]

Raise(e) == [exc |-> e, v |-> 0]

\* d[k].lower() of a text that may be missing or None.
Subscript(d, k) ==
    IF k \notin DOMAIN d THEN "KeyError"
    ELSE IF d[k] = None THEN "AttributeError"
    ELSE "none"

\* d.get(k, '').lower()
GetLower(d, k) ==
    IF k \notin DOMAIN d THEN "none"
    ELSE IF d[k] = None THEN "AttributeError"
    ELSE "none"

TextOf(d, k) == IF k \in DOMAIN d /\ d[k] # None THEN d[k][1] ELSE {}

---------------------------------------------------------------------------
(* RiskScorer: tables.                                                     *)

Unit == 300 * 1000

Tenth == Unit \div 10

weights ==
    [weather |-> 20, political |-> 15, economic |-> 25, supply |-> 25,
     demand |-> 15]

WeightedCategories == <<"weather", "political", "economic", "supply", "demand">>

disaster_types ==
    <<"earthquake", "tsunami", "hurricane", "flood", "storm", "drought",
      "wildfire">>

disaster_severity_weights ==
    [earthquake |-> 10 * Tenth, tsunami |-> 10 * Tenth,
     hurricane |-> 9 * Tenth, flood |-> 8 * Tenth, storm |-> 7 * Tenth,
     drought |-> 6 * Tenth, wildfire |-> 8 * Tenth]

risk_factors ==
    [extreme_weather |-> 10 * Tenth, storm_warning |-> 7 * Tenth,
     flood_risk |-> 8 * Tenth, normal |-> 1 * Tenth]

risk_keywords ==
    [disruption |-> 8 * Tenth, shortage |-> 7 * Tenth, delay |-> 6 * Tenth,
     crisis |-> 8 * Tenth, strike |-> 7 * Tenth, shutdown |-> 8 * Tenth,
     bankruptcy |-> 9 * Tenth, recall |-> 7 * Tenth, accident |-> 6 * Tenth,
     investigation |-> 5 * Tenth]

political_keywords ==
    [tariff |-> 7 * Tenth, sanction |-> 9 * Tenth, trade_war |-> 8 * Tenth,
     regulation |-> 6 * Tenth, policy_change |-> 5 * Tenth,
     restriction |-> 7 * Tenth, compliance |-> 6 * Tenth]

\* The word a political keyword is searched as ('trade war', 'policy change').
PoliticalPhrase(k) ==
    CASE k = "trade_war"     -> "trade war"
      [] k = "policy_change" -> "policy change"
      [] OTHER               -> k

NewsWindow == 10

RecentDays == 7

---------------------------------------------------------------------------
(* RiskScorer.calculate_weather_risk                                       *)

ForecastDayRisk(day) ==
    LET weather_main == Lower(Get(day, "main", ""))
    IN  IF weather_main \in {"thunderstorm", "tornado", "hurricane"}
        THEN 9 * Tenth
        ELSE IF weather_main \in {"rain", "snow", "storm"} THEN 6 * Tenth
        ELSE 0

\* Mutant of calculate_weather_risk: the active alerts are not looked at.
calculate_weather_risk_no_alerts(weather_data) ==
    LET condition == Get(weather_data, "condition", "normal")
        condition_risk == IF condition \in DOMAIN risk_factors
                          THEN risk_factors[condition] ELSE 1 * Tenth
        forecast == Get(weather_data, "forecast", <<>>)
        forecast_risk ==
            MaxOf({ForecastDayRisk(forecast[i]) : i \in 1..Len(forecast)})
    IN  Ok(Max(1 * Tenth, Max(condition_risk, forecast_risk)))

calculate_weather_risk(weather_data) ==
    LET base_risk == IF Len(Get(weather_data, "alerts", <<>>)) > 0
                     THEN 8 * Tenth ELSE 1 * Tenth
        condition == Get(weather_data, "condition", "normal")
        condition_risk == IF condition \in DOMAIN risk_factors
                          THEN risk_factors[condition] ELSE 1 * Tenth
        forecast == Get(weather_data, "forecast", <<>>)
        forecast_risk ==
            MaxOf({ForecastDayRisk(forecast[i]) : i \in 1..Len(forecast)})
    IN  Ok(Max(base_risk, Max(condition_risk, forecast_risk)))

---------------------------------------------------------------------------
(* RiskScorer.calculate_disaster_risk                                      *)

\* d['date'].replace('Z', '+00:00'), datetime.fromisoformat of it, and the
\* subtraction from the naive datetime.now().
DateError(d) ==
    IF "date" \notin DOMAIN d THEN "KeyError"
    ELSE IF d["date"] = None THEN "AttributeError"
    ELSE IF d["date"][1].fmt = "rfc822" THEN "ValueError"
    ELSE IF d["date"][1].fmt \in {"iso_z", "iso_offset"} THEN "TypeError"
    ELSE "none"

\* (datetime.now() - date).days: timedelta.days is the floor.
AgeDays(d, now) == (now - d["date"][1].t) \div TicksPerDay

\* Mutant of IsRecent: an event exactly RecentDays days old is left out.
IsRecentStrict(d, now) == AgeDays(d, now) < RecentDays

IsRecent(d, now) == AgeDays(d, now) <= RecentDays

\* The first keyword of the table, in table order, found in the title.
FirstMatch(title) ==
    LET hits == {i \in 1..Len(disaster_types) :
                    KeywordIn(disaster_types[i], title)}
    IN  IF hits = {} THEN 0
        ELSE CHOOSE i \in hits : \A j \in hits : i <= j

\* Mutant of DisasterWeight: the keyword loop without its break, so that the
\* heaviest keyword found in the title wins.
DisasterWeightNoBreak(d) ==
    MaxOf({ IF KeywordIn(disaster_types[i], TextOf(d, "title"))
            THEN disaster_severity_weights[disaster_types[i]] ELSE 0
            : i \in 1..Len(disaster_types) })

DisasterWeight(d) ==
    LET i == FirstMatch(TextOf(d, "title"))
    IN  IF i = 0 THEN 0 ELSE disaster_severity_weights[disaster_types[i]]

calculate_disaster_risk(disaster_data, now) ==
    IF Len(disaster_data) = 0 THEN Ok(0)
    ELSE
    LET n == Len(disaster_data)
        badDates == {i \in 1..n : DateError(disaster_data[i]) # "none"}
        firstBadDate == CHOOSE i \in badDates : \A j \in badDates : i <= j
        recent == {i \in 1..n : IsRecent(disaster_data[i], now)}
        badTitles ==
            {i \in recent : Subscript(disaster_data[i], "title") # "none"}
        firstBadTitle == CHOOSE i \in badTitles : \A j \in badTitles : i <= j
    IN  IF badDates # {} THEN Raise(DateError(disaster_data[firstBadDate]))
        ELSE IF badTitles # {}
        THEN Raise(Subscript(disaster_data[firstBadTitle], "title"))
        ELSE Ok(MaxOf({DisasterWeight(disaster_data[i]) : i \in recent}))

---------------------------------------------------------------------------
(* RiskScorer.calculate_trade_risk                                         *)

\* trade_data.get(k, default) used in arithmetic: None is a TypeError.
IndicatorError(trade_data, k) ==
    IF k \in DOMAIN trade_data /\ trade_data[k] = None THEN "TypeError"
    ELSE "none"

Indicator(trade_data, k, default) ==
    IF k \in DOMAIN trade_data /\ trade_data[k] # None THEN trade_data[k][1]
    ELSE default

calculate_trade_risk(trade_data) ==
    IF DOMAIN trade_data = {} THEN Ok(5 * Tenth)
    ELSE IF IndicatorError(trade_data, "trade") # "none"
         \/ IndicatorError(trade_data, "manufacturing") # "none"
         \/ IndicatorError(trade_data, "logistics") # "none"
    THEN Raise("TypeError")
    ELSE
    LET \* 1 - percent / 100, percent an integer
        trade_risk == Unit - Indicator(trade_data, "trade", 50) * (Unit \div 100)
        manufacturing_risk ==
            Unit - Indicator(trade_data, "manufacturing", 50) * (Unit \div 100)
        \* 1 - lpi / 5, lpi in tenths
        logistics_risk ==
            Unit - Indicator(trade_data, "logistics", 25) * (Unit \div 50)
        weighted_risk == (trade_risk * 3 + manufacturing_risk * 3
                          + logistics_risk * 4) \div 10
    IN  Ok(Min(weighted_risk, Unit))

---------------------------------------------------------------------------
(* RiskScorer.calculate_news_sentiment_risk                                *)

\* news['title'].lower() and news.get('description', '').lower()
NewsItemError(news) ==
    IF Subscript(news, "title") # "none" THEN Subscript(news, "title")
    ELSE GetLower(news, "description")

FirstBadNews(news_data, n) ==
    LET bad == {i \in 1..n : NewsItemError(news_data[i]) # "none"}
    IN  IF bad = {} THEN 0 ELSE CHOOSE i \in bad : \A j \in bad : i <= j

NewsItemRisk(news) ==
    LET title == TextOf(news, "title")
        description == TextOf(news, "description")
    IN  MaxOf({ IF KeywordIn(k, title) THEN risk_keywords[k]
                ELSE IF KeywordIn(k, description)
                THEN (risk_keywords[k] * 7) \div 10
                ELSE 0 : k \in DOMAIN risk_keywords })

calculate_news_sentiment_risk(news_data) ==
    IF Len(news_data) = 0 THEN Ok(0)
    ELSE
    LET n == Min(Len(news_data), NewsWindow)
        bad == FirstBadNews(news_data, n)
    IN  IF bad # 0 THEN Raise(NewsItemError(news_data[bad]))
        ELSE Ok(MaxOf({NewsItemRisk(news_data[i]) : i \in 1..n}))

---------------------------------------------------------------------------
(* RiskScorer.calculate_political_risk, calculate_economic_risk            *)

PoliticalItemRisk(news) ==
    LET title == TextOf(news, "title")
        description == TextOf(news, "description")
    IN  MaxOf({ IF \/ KeywordIn(PoliticalPhrase(k), title)
                   \/ KeywordIn(PoliticalPhrase(k), description)
                THEN political_keywords[k] ELSE 0
                : k \in DOMAIN political_keywords })

calculate_political_risk(news_data, trade_data) ==
    LET trade == calculate_trade_risk(trade_data)
        bad == FirstBadNews(news_data, Len(news_data))
    IN  IF trade.exc # "none" THEN trade
        ELSE IF bad # 0 THEN Raise(NewsItemError(news_data[bad]))
        ELSE Ok(Max(trade.v \div 2,
                    MaxOf({PoliticalItemRisk(news_data[i]) :
                              i \in 1..Len(news_data)})))

\* Mutant of calculate_economic_risk: a stub that reports no economic risk.
calculate_economic_risk_stub(trade_data) == Ok(0)

calculate_economic_risk(trade_data) == calculate_trade_risk(trade_data)

---------------------------------------------------------------------------
(* RiskScorer.calculate_supply_risk, calculate_demand_risk                 *)

calculate_supply_risk(supply_data) ==
    LET inventory_level == Get(supply_data, "inventory_level", 50)
        lead_time == Get(supply_data, "lead_time", 30)
        \* in hundredths
        supplier_reliability == Get(supply_data, "supplier_reliability", 50)
        inventory_risk == (100 - inventory_level) * (Unit \div 100)
        lead_time_risk == Min(lead_time * (Unit \div 60), Unit)
        reliability_risk == Unit - supplier_reliability * (Unit \div 100)
    IN  Ok((inventory_risk * 4 + lead_time_risk * 3 + reliability_risk * 3)
           \div 10)

calculate_demand_risk(demand_data) ==
    LET \* both in hundredths
        forecast_accuracy == Get(demand_data, "forecast_accuracy", 70)
        demand_volatility == Get(demand_data, "demand_volatility", 30)
        accuracy_risk == Unit - forecast_accuracy * (Unit \div 100)
    IN  Ok((accuracy_risk * 6 + demand_volatility * (Unit \div 100) * 4)
           \div 10)

---------------------------------------------------------------------------
(* RiskScorer.calculate_overall_risk                                       *)

RECURSIVE WeightedSum(_, _)
WeightedSum(risk_scores, i) ==
    IF i = 0 THEN 0
    ELSE risk_scores[WeightedCategories[i]] * weights[WeightedCategories[i]]
         + WeightedSum(risk_scores, i - 1)

\* Mutant of Uplift: the cap without the 1.2 factor.
UpliftNone(overall_risk) == Min(overall_risk \div 100, Unit)

\* min(overall_risk * 1.2, 1.0); the weights are hundredths
Uplift(overall_risk) == Min((overall_risk * 12) \div 1000, Unit)

ScoreNames ==
    {"weather", "political", "economic", "supply", "demand", "news_sentiment",
     "overall"}

calculate_overall_risk(d, now) ==
    LET weather_risk == calculate_weather_risk(Get(d, "weather", EmptyDict))
        disaster_risk == calculate_disaster_risk(Get(d, "disasters", <<>>), now)
        news_risk == calculate_news_sentiment_risk(Get(d, "news", <<>>))
        trade_risk == calculate_trade_risk(Get(d, "trade", EmptyDict))
        political == calculate_political_risk(Get(d, "news", <<>>),
                                              Get(d, "trade", EmptyDict))
        economic == calculate_economic_risk(Get(d, "trade", EmptyDict))
        supply == calculate_supply_risk(Get(d, "supply", EmptyDict))
        demand == calculate_demand_risk(Get(d, "demand", EmptyDict))
        calls == <<weather_risk, disaster_risk, news_risk, trade_risk,
                   political, economic, supply, demand>>
        raised == {i \in 1..Len(calls) : calls[i].exc # "none"}
        risk_scores ==
            [weather |-> Max(weather_risk.v, disaster_risk.v),
             political |-> political.v,
             economic |-> economic.v,
             supply |-> supply.v,
             demand |-> demand.v,
             news_sentiment |-> news_risk.v]
        overall ==
            Uplift(WeightedSum(risk_scores, Len(WeightedCategories)))
    IN  IF raised # {}
        THEN [exc |-> calls[CHOOSE i \in raised : \A j \in raised : i <= j].exc,
              v |-> [c \in ScoreNames |-> 0]]
        ELSE Ok([c \in ScoreNames |->
                    IF c = "overall" THEN overall ELSE risk_scores[c]])

---------------------------------------------------------------------------
(* RiskScorer.get_risk_category, get_risk_recommendations, analyze_supplier *)

\* Mutant of get_risk_category: the two thresholds belong to the lower label.
get_risk_category_inclusive(risk_score) ==
    IF risk_score <= 3 * Tenth THEN "Low"
    ELSE IF risk_score <= 6 * Tenth THEN "Medium"
    ELSE "High"

get_risk_category(risk_score) ==
    IF risk_score < 3 * Tenth THEN "Low"
    ELSE IF risk_score < 6 * Tenth THEN "Medium"
    ELSE "High"

UrgentWeatherAdvisory ==
    "Urgent: Active weather alerts in the area. Consider immediate alternative transportation routes and backup suppliers."

WeatherAdvisory ==
    "Consider alternative transportation routes and backup suppliers due to adverse weather conditions."

PoliticalAdvisory ==
    "High political risk detected. Diversify supplier base across different regions and monitor trade policies."

LogisticsAdvisory ==
    "Poor logistics performance index detected. Review and optimize supply chain network."

EconomicAdvisory ==
    "Review and adjust pricing strategies and contract terms due to economic risks."

SupplyAdvisory ==
    "Increase safety stock levels and identify backup suppliers to mitigate supply risks."

DemandAdvisory ==
    "Improve demand forecasting accuracy and implement buffer stock strategies."

NewsAdvisory ==
    "Critical news events detected. Review and update contingency plans."

\* Mutant of Advise: the advisory is appended twice.
AdviseTwice(cond, text) == IF cond THEN <<text, text>> ELSE <<>>

\* if cond: recommendations.append(text)
Advise(cond, text) == IF cond THEN <<text>> ELSE <<>>

\* Mutant of get_risk_recommendations: a score equal to its threshold
\* already triggers the advisory.
get_risk_recommendations_at_threshold(risk_scores, d) ==
    LET weather == Get(d, "weather", EmptyDict)
        trade == Get(d, "trade", EmptyDict)
    IN  Advise(risk_scores["weather"] >= 7 * Tenth,
               IF Len(Get(weather, "alerts", <<>>)) > 0
               THEN UrgentWeatherAdvisory ELSE WeatherAdvisory)
        \o Advise(risk_scores["political"] >= 6 * Tenth, PoliticalAdvisory)
        \o Advise(/\ risk_scores["economic"] >= 6 * Tenth
                  /\ Indicator(trade, "logistics", 0) < 25,
                  LogisticsAdvisory)
        \o Advise(risk_scores["economic"] >= 6 * Tenth, EconomicAdvisory)
        \o Advise(risk_scores["supply"] >= 5 * Tenth, SupplyAdvisory)
        \o Advise(risk_scores["demand"] >= 5 * Tenth, DemandAdvisory)
        \o Advise(risk_scores["news_sentiment"] >= 7 * Tenth, NewsAdvisory)

get_risk_recommendations(risk_scores, d) ==
    LET weather == Get(d, "weather", EmptyDict)
        trade == Get(d, "trade", EmptyDict)
    IN  Advise(risk_scores["weather"] > 7 * Tenth,
               IF Len(Get(weather, "alerts", <<>>)) > 0
               THEN UrgentWeatherAdvisory ELSE WeatherAdvisory)
        \o Advise(risk_scores["political"] > 6 * Tenth, PoliticalAdvisory)
        \o Advise(/\ risk_scores["economic"] > 6 * Tenth
                  \* the index is in tenths
                  /\ Indicator(trade, "logistics", 0) < 25,
                  LogisticsAdvisory)
        \o Advise(risk_scores["economic"] > 6 * Tenth, EconomicAdvisory)
        \o Advise(risk_scores["supply"] > 5 * Tenth, SupplyAdvisory)
        \o Advise(risk_scores["demand"] > 5 * Tenth, DemandAdvisory)
        \o Advise(risk_scores["news_sentiment"] > 7 * Tenth, NewsAdvisory)

\* The outcome of analyze_supplier: the record it returns, or the exception
\* that escaped calculate_overall_risk.
analyze_supplier(supplier_data, now) ==
    LET risk_scores == calculate_overall_risk(supplier_data, now)
    IN  IF risk_scores.exc # "none"
        THEN [called |-> TRUE, exc |-> risk_scores.exc,
              risk_scores |-> risk_scores.v, risk_category |-> "",
              recommendations |-> <<>>, timestamp |-> 0,
              raw_data |-> EmptyDict]
        ELSE [called |-> TRUE, exc |-> "none",
              risk_scores |-> risk_scores.v,
              risk_category |-> get_risk_category(risk_scores.v["overall"]),
              recommendations |->
                  get_risk_recommendations(risk_scores.v, supplier_data),
              timestamp |-> now,
              raw_data |-> supplier_data]

---------------------------------------------------------------------------
(* Bundles the scorer is called on.                                        *)

MaxFields == 2

Iso(t) == Some([fmt |-> "iso", t |-> t])

WeatherChoices ==
    << EmptyDict,
       [alerts |-> <<"Typhoon warning">>],
       [alerts |-> <<"Flood watch", "Typhoon warning">>],
       [condition |-> "storm_warning", alerts |-> <<>>],
       [condition |-> "normal",
        forecast |-> <<[main |-> "Clear"], [main |-> "Thunderstorm"]>>] >>

DisasterChoices ==
    << <<>>,
       << [title |-> Some({"Earthquake", "M6"}), date |-> Iso(0)] >>,
       << [title |-> Some({"drought", "wildfire"}), date |-> Iso(12)] >>,
       << [title |-> Some({"Earthquake"}), date |-> Iso(0 - 7)] >>,
       << [title |-> Some({"flood"}), date |-> Iso(30)] >>,
       << [title |-> Some({"volcano"}), date |-> Iso(12)] >>,
       << [title |-> Some({"storm"}),
           date |-> Some([fmt |-> "iso_z", t |-> 12])] >>,
       << [title |-> Some({"flood"}),
           date |-> Some([fmt |-> "rfc822", t |-> 12])] >>,
       << [title |-> Some({"wildfire"}), date |-> None] >>,
       << [title |-> Some({"wildfire"})] >>,
       << [title |-> None, date |-> Iso(12)] >>,
       << [title |-> Some({"Earthquake"}), date |-> Iso(0 - 7)],
          [title |-> Some({"storm", "wildfire"}), date |-> Iso(12)] >> >>

\* n items of no weight followed by one whose title holds 'Bankruptcy'.
BankruptcyAfter(n) ==
    [i \in 1..(n + 1) |->
        IF i = n + 1 THEN [title |-> Some({"Bankruptcy", "filing"})]
        ELSE [title |-> Some({"earnings"})]]

NewsChoices ==
    << <<>>,
       BankruptcyAfter(NewsWindow - 1),
       BankruptcyAfter(NewsWindow),
       << [title |-> Some({"Bankruptcy", "filing"})] >>,
       << [title |-> Some({"chip", "sanctions"}),
           description |-> Some({"delays", "expected"})] >>,
       << [description |-> Some({"shortage"})] >>,
       << [title |-> Some({"strike"}), description |-> None] >>,
       << [title |-> None, description |-> Some({"recall"})] >>,
       << [title |-> Some({"earnings"}), description |-> Some({"trade war"})],
          [title |-> Some({"investigation"})] >> >>

TradeChoices ==
    << EmptyDict,
       [trade |-> Some(60), manufacturing |-> Some(20), logistics |-> Some(30)],
       [trade |-> Some(10), manufacturing |-> Some(5), logistics |-> Some(12)],
       [trade |-> Some(150), manufacturing |-> Some(120),
        logistics |-> Some(50)],
       [logistics |-> Some(60)],
       [trade |-> Some(40), logistics |-> None] >>

SupplyChoices ==
    << EmptyDict,
       [inventory_level |-> 20, lead_time |-> 90, supplier_reliability |-> 30],
       [inventory_level |-> 200, lead_time |-> 0, supplier_reliability |-> 100],
       [inventory_level |-> 0 - 50, lead_time |-> 45,
        supplier_reliability |-> 0],
       [lead_time |-> 0 - 30] >>

DemandChoices ==
    << EmptyDict,
       [forecast_accuracy |-> 90, demand_volatility |-> 80],
       [forecast_accuracy |-> 150, demand_volatility |-> 10],
       [forecast_accuracy |-> 0, demand_volatility |-> 120] >>

BundleKeys ==
    <<"weather", "disasters", "news", "trade", "supply", "demand">>

Choice(k, i) ==
    CASE k = "weather"   -> WeatherChoices[i]
      [] k = "disasters" -> DisasterChoices[i]
      [] k = "news"      -> NewsChoices[i]
      [] k = "trade"     -> TradeChoices[i]
      [] k = "supply"    -> SupplyChoices[i]
      [] k = "demand"    -> DemandChoices[i]

\* The bundle holding, for each key k with c[k] > 0, the c[k]-th choice.
Bundle(c) ==
    [k \in {x \in DOMAIN c : c[x] > 0} |-> Choice(k, c[k])]

BundleChoices ==
    { c \in [weather : 0..Len(WeatherChoices),
             disasters : 0..Len(DisasterChoices),
             news : 0..Len(NewsChoices),
             trade : 0..Len(TradeChoices),
             supply : 0..Len(SupplyChoices),
             demand : 0..Len(DemandChoices)] :
        Cardinality({k \in DOMAIN c : c[k] > 0}) <= MaxFields }

---------------------------------------------------------------------------
(* The scoring engine as a state machine: a bundle, the wall clock, and    *)
(* calls of calculate_overall_risk on the bundle.                          *)

NotCalled == [called |-> FALSE, exc |-> "none", v |-> [c \in ScoreNames |-> 0]]

Called(r) == [called |-> TRUE, exc |-> r.exc, v |-> r.v]

NotAnalyzed ==
    [called |-> FALSE, exc |-> "none", risk_scores |-> [c \in ScoreNames |-> 0],
     risk_category |-> "", recommendations |-> <<>>, timestamp |-> 0,
     raw_data |-> EmptyDict]

CollectIdle ==
    /\ registry = <<>>
    /\ pc = EmptyDict
    /\ req = EmptyDict
    /\ bundle = EmptyDict
    /\ running = "none"
    /\ result = [phase |-> "idle", value |-> EmptyDict]
    /\ hung = {}
    /\ finished = <<>>

CollectorIdle == col = [pc |-> "idle"]

\* Nothing else has happened yet: get_risk_category and calculate_risk_score
\* were not called, supply_chain.db holds its empty tables after create_all
\* and no method of DatabaseManager was called, and the dashboard shows its
\* first page with the auto-refresh box unchecked before any run.
OtherIdle ==
    /\ label = [called |-> FALSE, risk_score |-> 0, category |-> ""]
    /\ db = [suppliers |-> <<>>, components |-> <<>>,
             supplier_components |-> <<>>, risk_assessments |-> <<>>,
             disruption_events |-> <<>>]
    /\ call = [n |-> 0, op |-> "none", args |-> <<>>, exc |-> "none",
               ret |-> <<>>]
    /\ risk = [called |-> FALSE, exc |-> "none", v |-> EmptyDict]
    /\ app = [pc |-> "idle", page |-> "Getting Started",
              auto_refresh |-> FALSE, rendered |-> "none"]

ScoreInit ==
    /\ \E c \in BundleChoices : data = Bundle(c)
    /\ clock = Now0
    /\ scores = NotCalled
    /\ prev = NotCalled
    /\ assessment = NotAnalyzed
    /\ CollectIdle
    /\ CollectorIdle
    /\ OtherIdle

\* Time passes between two calls.
Tick ==
    /\ clock < MaxClock
    /\ clock' = clock + 1
    /\ UNCHANGED <<data, scores, prev, assessment, collectVars, col, otherVars>>

CalculateOverallRisk ==
    /\ scores' = Called(calculate_overall_risk(data, clock))
    /\ prev' = scores
    /\ UNCHANGED <<data, clock, assessment, collectVars, col, otherVars>>

\* analyze_supplier(data): the scores, their category, the recommendations
\* and the time of the call; the record keeps the bundle itself (raw_data).
AnalyzeSupplier ==
    /\ assessment' = analyze_supplier(data, clock)
    /\ UNCHANGED <<data, clock, scores, prev, collectVars, col, otherVars>>

ScoreNext == Tick \/ CalculateOverallRisk \/ AnalyzeSupplier

Spec == ScoreInit /\ [][ScoreNext]_vars

---------------------------------------------------------------------------
(* The category and the recommendations as a state machine: bundles whose  *)
(* scores lie on, below and above the thresholds of                        *)
(* get_risk_recommendations, and calls of get_risk_category on a grid of   *)
(* scores that reaches outside [0,1].                                      *)

AdviceOptions ==
    [weather |->
        << [alerts |-> <<"Flood watch">>],
           [condition |-> "storm_warning"],
           [condition |-> "extreme_weather"] >>,
     news |->
        << << [title |-> Some({"new", "regulation"})] >>,
           << [title |-> Some({"shortage"})] >>,
           << [title |-> Some({"chip", "sanctions"})] >>,
           << [title |-> Some({"chip", "sanctions"})],
              [title |-> Some({"Bankruptcy", "filing"})] >> >>,
     trade |->
        << [trade |-> Some(10), manufacturing |-> Some(5),
            logistics |-> Some(12)],
           [trade |-> Some(10), manufacturing |-> Some(5)],
           [trade |-> Some(0), manufacturing |-> Some(0),
            logistics |-> Some(30)],
           [trade |-> Some(40), manufacturing |-> Some(40),
            logistics |-> Some(20)],
           [trade |-> Some(60), manufacturing |-> Some(20),
            logistics |-> Some(30)] >>,
     supply |->
        << [inventory_level |-> 20, lead_time |-> 90,
            supplier_reliability |-> 30],
           [inventory_level |-> 50, lead_time |-> 30,
            supplier_reliability |-> 50] >>,
     demand |->
        << [forecast_accuracy |-> 0, demand_volatility |-> 120],
           [forecast_accuracy |-> 50, demand_volatility |-> 50] >>]

\* The bundle holding, for each key k with c[k] > 0, the c[k]-th option.
AdviceBundle(c) ==
    [k \in {x \in DOMAIN c : c[x] > 0} |-> AdviceOptions[k][c[k]]]

AdviceChoices ==
    [weather : 0..Len(AdviceOptions.weather),
     news : 0..Len(AdviceOptions.news),
     trade : 0..Len(AdviceOptions.trade),
     supply : 0..Len(AdviceOptions.supply),
     demand : 0..Len(AdviceOptions.demand)]

\* Scores a caller may pass to get_risk_category: twentieths, GridMargin of
\* them below 0 and above 1.
GridMargin == 4

ScoreGrid ==
    {k * (Tenth \div 2) : k \in (0 - GridMargin)..(20 + GridMargin)}

AdviceInit ==
    /\ \E c \in AdviceChoices : data = AdviceBundle(c)
    /\ clock = Now0
    /\ scores = NotCalled
    /\ prev = NotCalled
    /\ assessment = NotAnalyzed
    /\ CollectIdle
    /\ CollectorIdle
    /\ OtherIdle

GetRiskCategory(risk_score) ==
    /\ label' = [called |-> TRUE, risk_score |-> risk_score,
                 category |-> get_risk_category(risk_score)]
    /\ UNCHANGED <<scoreVars, collectVars, col, db, call, risk, app>>

AdviceNext ==
    \/ AnalyzeSupplier
    \/ \E risk_score \in ScoreGrid : GetRiskCategory(risk_score)

AdviceSpec == AdviceInit /\ [][AdviceNext]_vars

---------------------------------------------------------------------------
(* Properties of the scoring engine.                                       *)

InUnitInterval(x) == 0 <= x /\ x <= Unit

\* C1: every score calculate_overall_risk returns (weather, political,
\* economic, supply, demand, news_sentiment, overall) lies in [0,1], also
\* for bundles with out-of-range sub-field values.
C1_ScoresInUnitInterval ==
    (scores.called /\ scores.exc = "none")
        => \A c \in ScoreNames : InUnitInterval(scores.v[c])

\* C2: two calls of calculate_overall_risk on the same bundle, at any two
\* values of the wall clock, return the same outcome.
C2_Deterministic ==
    (prev.called /\ scores.called) => prev = scores

\* C8: calculate_overall_risk returns a score set without raising for every
\* list of disaster events, whatever their timestamps.
C8_TotalOverDisasters ==
    (scores.called /\ DOMAIN data \subseteq {"disasters"})
        => scores.exc = "none"

\* C9: calculate_overall_risk returns a score set without raising when a
\* news item has no title or a description that is absent or null, and
\* when an indicator's value is null.
C9_TotalOverAbsentValues ==
    (scores.called /\ DOMAIN data \subseteq {"news", "trade"})
        => scores.exc = "none"

\* C14: for the empty bundle (all fields absent), the overall score of
\* calculate_overall_risk is categorised by get_risk_category as 'Medium'.
C14_EmptyBundleIsMedium ==
    (assessment.called /\ DOMAIN data = {})
        => (assessment.exc = "none" /\ assessment.risk_category = "Medium")

C14_Witness ==
    /\ assessment.called
    /\ DOMAIN data = {}
    /\ assessment.risk_scores["overall"] >= 3 * Tenth

\* A score rounded to two decimal places, in hundredths.
Round2(x) == (x + Unit \div 200) \div (Unit \div 100)

\* C15 as stated: for the empty bundle calculate_overall_risk returns, to
\* two decimal places, economic 0.5, supply 0.49, demand 0.42, weather 0.1,
\* political 0.25 and overall 0.36.
C15_EmptyBundleScores ==
    (scores.called /\ DOMAIN data = {}) =>
        /\ scores.exc = "none"
        /\ Round2(scores.v["economic"]) = 50
        /\ Round2(scores.v["supply"]) = 49
        /\ Round2(scores.v["demand"]) = 42
        /\ Round2(scores.v["weather"]) = 10
        /\ Round2(scores.v["political"]) = 25
        /\ Round2(scores.v["overall"]) = 36

\* C15 amended: for the empty bundle calculate_overall_risk returns, to
\* two decimal places, economic 0.5, supply 0.5, demand 0.3, weather 0.1,
\* political 0.25 and overall 0.42 (the weighted sum 0.3525 times 1.2 is
\* 0.423).
C15_EmptyBundleScoresAmended ==
    (scores.called /\ DOMAIN data = {}) =>
        /\ scores.exc = "none"
        /\ Round2(scores.v["economic"]) = 50
        /\ Round2(scores.v["supply"]) = 50
        /\ Round2(scores.v["demand"]) = 30
        /\ Round2(scores.v["weather"]) = 10
        /\ Round2(scores.v["political"]) = 25
        /\ Round2(scores.v["overall"]) = 42
        /\ scores.v["overall"] = 423 * (Unit \div 1000)

C15_Witness ==
    /\ scores.called
    /\ DOMAIN data = {}
    /\ scores.v["supply"] = 5 * Tenth

\* A bundle whose only data is a weather snapshot holding active alerts.
AlertOnly(d) ==
    /\ DOMAIN d = {"weather"}
    /\ DOMAIN d["weather"] = {"alerts"}
    /\ Len(d["weather"]["alerts"]) > 0

\* C16: for a bundle whose only data is a weather snapshot with at least one
\* active alert, the weather score is exactly 0.8 and the recommendations
\* of get_risk_recommendations include the weather advisory (the one for
\* active alerts).
C16_AlertOnlyBundle ==
    (assessment.called /\ AlertOnly(data)) =>
        /\ assessment.exc = "none"
        /\ assessment.risk_scores["weather"] = 8 * Tenth
        /\ \E i \in 1..Len(assessment.recommendations) :
              assessment.recommendations[i] = UrgentWeatherAdvisory

C16_Witness ==
    /\ assessment.called
    /\ AlertOnly(data)
    /\ Len(data["weather"]["alerts"]) > 1
    /\ Len(assessment.recommendations) > 0

\* Some item of the news list has a title containing 'bankruptcy'.
HasBankruptcyTitle(news_data) ==
    \E i \in 1..Len(news_data) :
        KeywordIn("bankruptcy", TextOf(news_data[i], "title"))

\* C17: if any news item of the bundle has a title containing 'bankruptcy',
\* the news-sentiment score is at least 0.9, whatever other items are
\* present, however many, and wherever in the list the item stands.
C17_BankruptcyAtLeast09 ==
    (/\ scores.called
     /\ scores.exc = "none"
     /\ HasBankruptcyTitle(Get(data, "news", <<>>)))
        => scores.v["news_sentiment"] >= 9 * Tenth

\* What the code does instead: only the first NewsWindow items are read.
BankruptcyInWindow ==
    (/\ scores.called
     /\ scores.exc = "none"
     /\ HasBankruptcyTitle(SubSeq(Get(data, "news", <<>>), 1,
                                  Min(NewsWindow, Len(Get(data, "news", <<>>))))))
        => scores.v["news_sentiment"] >= 9 * Tenth

\* The bundle holds disaster events only, all with ISO dates and titles.
DisastersOnly(d) ==
    /\ DOMAIN d = {"disasters"}
    /\ Len(d["disasters"]) > 0
    /\ \A i \in 1..Len(d["disasters"]) :
          /\ DateError(d["disasters"][i]) = "none"
          /\ Subscript(d["disasters"][i], "title") = "none"

\* The event is dated more than RecentDays days before now.
OlderThanWindow(d, now) == now - d["date"][1].t > RecentDays * TicksPerDay

\* C18: calculate_disaster_risk takes into account only the events dated
\* within the 7 days before the call: when every event of the bundle is
\* older than 7 days, the disasters contribute nothing and the weather
\* score is the 0.1 of a bundle without weather data.
C18_OnlyLast7Days ==
    (/\ assessment.called
     /\ assessment.exc = "none"
     /\ DisastersOnly(data)
     /\ \A i \in 1..Len(data["disasters"]) :
           OlderThanWindow(data["disasters"][i], assessment.timestamp))
        => assessment.risk_scores["weather"] = 1 * Tenth

\* What the code does instead: timedelta.days is the floor of the age, so
\* the events up to 8 days old count; those 8 days old or older do not.
OlderThan8DaysIgnored ==
    (/\ assessment.called
     /\ assessment.exc = "none"
     /\ DisastersOnly(data)
     /\ \A i \in 1..Len(data["disasters"]) :
           assessment.timestamp - data["disasters"][i]["date"][1].t
               >= (RecentDays + 1) * TicksPerDay)
        => assessment.risk_scores["weather"] = 1 * Tenth

\* The severity table's keywords in table order, as the claim lists them.
TableOrder ==
    <<"earthquake", "tsunami", "hurricane", "flood", "storm", "drought",
      "wildfire">>

\* The weight of the first keyword, in table order, that occurs in the
\* title; zero when no keyword occurs in it.
FirstKeywordWeight(title) ==
    IF \A i \in 1..Len(TableOrder) : ~KeywordIn(TableOrder[i], title) THEN 0
    ELSE LET i == CHOOSE k \in 1..Len(TableOrder) :
                      /\ KeywordIn(TableOrder[k], title)
                      /\ \A j \in 1..(k - 1) : ~KeywordIn(TableOrder[j], title)
         IN  disaster_severity_weights[TableOrder[i]]

WeightedUplift(v) ==
    ((20 * v["weather"] + 15 * v["political"] + 25 * v["economic"]
      + 25 * v["supply"] + 15 * v["demand"]) * 12) \div 1000

\* C20: the overall score is the weighted sum of the five category scores
\* (weather 0.2, political 0.15, economic 0.25, supply 0.25, demand 0.15)
\* times 1.2, clamped to [0,1] at both ends; news_sentiment has no weight
\* in it.
C20_OverallFormula ==
    (scores.called /\ scores.exc = "none") =>
        scores.v["overall"] = Max(0, Min(WeightedUplift(scores.v), Unit))

\* What the code does instead: the uplifted sum is capped at 1 only.
OverallCappedAbove ==
    (scores.called /\ scores.exc = "none") =>
        scores.v["overall"] = Min(WeightedUplift(scores.v), Unit)

\* The event is dated within the RecentDays days before now.
InsideWindow(d, now) == now - d["date"][1].t <= RecentDays * TicksPerDay

\* C27: for every disaster event inside the recency window the disaster
\* risk is at least the severity weight of every keyword of the table that
\* occurs in its title ('drought' with 'wildfire': at least 0.8).  (Without
\* weather data the weather score is the larger of 0.1 and the disaster
\* risk.)
C27_AtLeastEveryKeyword ==
    (assessment.called /\ assessment.exc = "none" /\ DisastersOnly(data)) =>
        \A i \in 1..Len(data["disasters"]) :
            InsideWindow(data["disasters"][i], assessment.timestamp) =>
                \A k \in 1..Len(TableOrder) :
                    KeywordIn(TableOrder[k],
                              TextOf(data["disasters"][i], "title")) =>
                        assessment.risk_scores["weather"] >=
                            disaster_severity_weights[TableOrder[k]]

\* C27 as the code has it: for every disaster event inside the recency
\* window the disaster risk is at least the severity weight of the first
\* keyword, in table order, that occurs in its title.
C27_AtLeastFirstKeyword ==
    (assessment.called /\ assessment.exc = "none" /\ DisastersOnly(data)) =>
        \A i \in 1..Len(data["disasters"]) :
            InsideWindow(data["disasters"][i], assessment.timestamp) =>
                assessment.risk_scores["weather"] >=
                    FirstKeywordWeight(TextOf(data["disasters"][i], "title"))

\* An event inside the window titled 'storm wildfire' next to an older
\* earthquake: the risk is the 0.7 of 'storm', not the 0.8 of 'wildfire'.
C27_Witness ==
    /\ assessment.called
    /\ assessment.exc = "none"
    /\ DisastersOnly(data)
    /\ \E i \in 1..Len(data["disasters"]) :
          /\ InsideWindow(data["disasters"][i], assessment.timestamp)
          /\ KeywordIn("storm", TextOf(data["disasters"][i], "title"))
          /\ KeywordIn("wildfire", TextOf(data["disasters"][i], "title"))
    /\ assessment.risk_scores["weather"] = 7 * Tenth

---------------------------------------------------------------------------
(* Properties of the category and of the recommendations.                  *)

Analyzed == assessment.called /\ assessment.exc = "none"

\* The label the three ranges give a score: below 0.3, from 0.3 up to but
\* not including 0.6, 0.6 and above.
LabelledByRange(category, risk_score) ==
    /\ category \in {"Low", "Medium", "High"}
    /\ category = "Low" <=> risk_score < 3 * Tenth
    /\ category = "Medium" <=>
           (3 * Tenth <= risk_score /\ risk_score < 6 * Tenth)
    /\ category = "High" <=> risk_score >= 6 * Tenth

\* C21: get_risk_category gives every score exactly one label, Low below
\* 0.3, Medium from 0.3 up to but not including 0.6, High from 0.6 on, also
\* for scores outside [0,1]; and the label in a record of analyze_supplier is
\* the label of the record's own overall score.
C21_OneLabelPerScore ==
    /\ label.called => LabelledByRange(label.category, label.risk_score)
    /\ Analyzed =>
           LabelledByRange(assessment.risk_category,
                           assessment.risk_scores["overall"])

\* A score on the 0.3 threshold was labelled Medium, and a record whose
\* overall score is at least 0.6 carries High.
C21_Witness ==
    /\ label.called
    /\ label.risk_score = 3 * Tenth
    /\ label.category = "Medium"
    /\ Analyzed
    /\ assessment.risk_scores["overall"] >= 6 * Tenth
    /\ assessment.risk_category = "High"

AdvisedCategories ==
    <<"weather", "political", "economic", "supply", "demand",
      "news_sentiment">>

Threshold ==
    [weather |-> 7 * Tenth, political |-> 6 * Tenth, economic |-> 6 * Tenth,
     supply |-> 5 * Tenth, demand |-> 5 * Tenth, news_sentiment |-> 7 * Tenth]

Triggered(risk_scores) ==
    {i \in 1..Len(AdvisedCategories) :
        risk_scores[AdvisedCategories[i]] > Threshold[AdvisedCategories[i]]}

\* The position, in the fixed order, of the category an advisory belongs to;
\* the logistics advisory is appended inside the economic block.
RankOf(text) ==
    CASE text \in {UrgentWeatherAdvisory, WeatherAdvisory} -> 1
      [] text = PoliticalAdvisory -> 2
      [] text \in {LogisticsAdvisory, EconomicAdvisory} -> 3
      [] text = SupplyAdvisory -> 4
      [] text = DemandAdvisory -> 5
      [] text = NewsAdvisory -> 6
      [] OTHER -> 0

\* C22: each category is tested on its own against its threshold (weather
\* 0.7, political 0.6, economic 0.6, supply 0.5, demand 0.5, news sentiment
\* 0.7): the list holds an advisory of a category exactly when its score is
\* strictly above the threshold, and the advisories come in the fixed order
\* weather, political, economic, supply, demand, news sentiment.
C22_AdvisoryIffAboveThreshold ==
    Analyzed =>
        LET recs == assessment.recommendations
        IN  /\ \A i \in 1..Len(AdvisedCategories) :
                   (\E j \in 1..Len(recs) : RankOf(recs[j]) = i) <=>
                       i \in Triggered(assessment.risk_scores)
            /\ \A j \in 1..Len(recs) : RankOf(recs[j]) # 0
            /\ \A j, k \in 1..Len(recs) :
                   j < k => RankOf(recs[j]) <= RankOf(recs[k])

\* A weather score exactly on its threshold gives no weather advisory while
\* the political, supply and news advisories are listed in that order.
C22_Witness ==
    /\ Analyzed
    /\ assessment.risk_scores["weather"] = 7 * Tenth
    /\ assessment.recommendations =
           <<PoliticalAdvisory, SupplyAdvisory, NewsAdvisory>>

\* The one string each category would contribute.
FixedAdvisory ==
    <<WeatherAdvisory, PoliticalAdvisory, EconomicAdvisory, SupplyAdvisory,
      DemandAdvisory, NewsAdvisory>>

RECURSIVE OnePerCategory(_, _)
OnePerCategory(risk_scores, i) ==
    IF i = 0 THEN <<>>
    ELSE OnePerCategory(risk_scores, i - 1)
         \o (IF i \in Triggered(risk_scores) THEN <<FixedAdvisory[i]>>
             ELSE <<>>)

\* C23: every triggered category contributes one fixed string: there are as
\* many recommendations as triggered categories, and the string of a
\* category is the same for every bundle.
C23_OneStringPerCategory ==
    Analyzed =>
        /\ Len(assessment.recommendations) =
               Cardinality(Triggered(assessment.risk_scores))
        /\ assessment.recommendations =
               OnePerCategory(assessment.risk_scores,
                              Len(AdvisedCategories))

HasAlerts(d) == Len(Get(Get(d, "weather", EmptyDict), "alerts", <<>>)) > 0

Listed(text) ==
    \E j \in 1..Len(assessment.recommendations) :
        assessment.recommendations[j] = text

\* What a triggered category contributes: weather one of its two strings,
\* the urgent one when the bundle's weather data lists alerts; economic its
\* advisory, preceded by the logistics advisory when that one is issued; any
\* other category its one string.
Contribution(i) ==
    IF i = 1
    THEN <<IF HasAlerts(assessment.raw_data) THEN UrgentWeatherAdvisory
           ELSE WeatherAdvisory>>
    ELSE IF i = 3
    THEN (IF Listed(LogisticsAdvisory) THEN <<LogisticsAdvisory>> ELSE <<>>)
         \o <<EconomicAdvisory>>
    ELSE <<FixedAdvisory[i]>>

RECURSIVE Contributions(_)
Contributions(i) ==
    IF i = 0 THEN <<>>
    ELSE Contributions(i - 1)
         \o (IF i \in Triggered(assessment.risk_scores) THEN Contribution(i)
             ELSE <<>>)

\* C23 as the code has it: the list is, in the fixed order, what each
\* triggered category contributes, where weather contributes one of two
\* fixed strings and economic is preceded by the logistics advisory when
\* that one is issued; so there are as many recommendations as triggered
\* categories, plus one when the logistics advisory is issued.
C23_FixedStringsPerCategory ==
    Analyzed =>
        /\ assessment.recommendations = Contributions(Len(AdvisedCategories))
        /\ Len(assessment.recommendations) =
               Cardinality(Triggered(assessment.risk_scores))
               + (IF Listed(LogisticsAdvisory) THEN 1 ELSE 0)

\* Weather and economic are triggered on a bundle with alerts and a poor
\* logistics index: three strings for two categories.
C23_Witness ==
    /\ Analyzed
    /\ Triggered(assessment.risk_scores) = {1, 3}
    /\ assessment.recommendations =
           <<UrgentWeatherAdvisory, LogisticsAdvisory, EconomicAdvisory>>

\* C28: the recommendation reads the logistics index as the scoring does:
\* the logistics advisory is issued only when the bundle's indicator map
\* holds a logistics value below 2.5, never when the map has no logistics
\* entry.
C28_LogisticsAdvisoryNeedsIndex ==
    (Analyzed /\ Listed(LogisticsAdvisory)) =>
        LET trade == Get(assessment.raw_data, "trade", EmptyDict)
        IN  /\ "logistics" \in DOMAIN trade
            /\ trade["logistics"] # None
            /\ trade["logistics"][1] < 25

---------------------------------------------------------------------------
(* RealTimeDataCollector: the supplier registry and the upstream services. *)

NumSuppliers == 2
MaxFailures  == 1

supplier_symbols == <<"TSM", "INTC", "SSNLF", "UMC", "MU">>

suppliers ==
    [TSM   |-> [name |-> "Taiwan Semiconductor Manufacturing Company",
                location |-> "Hsinchu, Taiwan"],
     INTC  |-> [name |-> "Intel Corporation",
                location |-> "Santa Clara, USA"],
     SSNLF |-> [name |-> "Samsung Electronics",
                location |-> "Suwon, South Korea"],
     UMC   |-> [name |-> "United Microelectronics Corporation",
                location |-> "Hsinchu, Taiwan"],
     MU    |-> [name |-> "Micron Technology",
                location |-> "Boise, USA"]]

\* self.suppliers.keys() of a collector configured with the first n suppliers.
RegistryKeys(n) == SubSeq(supplier_symbols, 1, Min(n, Len(supplier_symbols)))

\* The suppliers of the registry that the model runs a cycle for.
Registered == {registry[i] : i \in 1..Len(registry)}

Index(s) == CHOOSE i \in 1..Len(supplier_symbols) : supplier_symbols[i] = s

country_code(s) ==
    LET location == suppliers[s].location
    IN  IF location \in {"Hsinchu, Taiwan"} THEN "TWN"
        ELSE IF location \in {"Santa Clara, USA", "Boise, USA"} THEN "USA"
        ELSE IF location \in {"Suwon, South Korea"} THEN "KOR"
        ELSE "USA"

indicators == <<"gdp_growth", "inflation", "trade_percent_gdp">>

\* The upstream requests of one get_supplier_data, in the order it makes them.
RequestOrder ==
    <<"stock", "weather", "news", "gdp_growth", "inflation",
      "trade_percent_gdp">>

Requests == {RequestOrder[i] : i \in 1..Len(RequestOrder)}

AllRequests == Registered \X Requests

\* What the upstream services hold: any function of the request's subject.
StockPayload(s) ==
    [current_price |-> Some(100 + Index(s)), price_history |-> <<100, 101>>]

WeatherPayload(s) ==
    [current |-> [temp |-> 20 + Index(s)],
     alerts |-> IF country_code(s) = "TWN" THEN <<"Typhoon warning">> ELSE <<>>,
     daily_forecast |-> <<[main |-> "Rain"]>>]

NewsPayload(s) ==
    << [title |-> Some({suppliers[s].name, "shortage"}),
        description |-> None] >>

IndicatorValue(country, name) ==
    IF country = "TWN" /\ name = "inflation" THEN None
    ELSE IF country = "USA" THEN Some(3) ELSE Some(2)

---------------------------------------------------------------------------
(* RealTimeDataCollector.get_supplier_data and get_all_suppliers_data on   *)
(* the asyncio event loop.  A call of an async method only creates a       *)
(* coroutine; it runs when it is awaited.  get_stock_data and the NewsAPI  *)
(* client are synchronous: the task that calls them holds the event-loop   *)
(* thread (running) until they return.                                     *)

Failed(s, r) == req[s][r] \in {"non200", "error"}

Completed(s, r) == req[s][r] \in {"ok", "non200", "error"}

NumFailed == Cardinality({q \in AllRequests : Failed(q[1], q[2])})

\* At most MaxFailures requests of a cycle misbehave: they fail, or they are
\* never answered.
Allowed(outcome) ==
    outcome = "ok" \/ NumFailed + Cardinality(hung) < MaxFailures

\* Mutant of Answers: a per-request timeout, which turns a request that is
\* never answered into one that ends.
AnswersWithTimeout(s, r) == TRUE

\* There is no timeout and no cancellation: a request ends only when the
\* upstream answers it.
Answers(s, r) == <<s, r>> \notin hung

\* asyncio.gather wraps every coroutine in a task; the loop starts the
\* tasks in creation order, and polls for I/O only after that.
AllStarted == \A t \in Registered : pc[t] # "scheduled"

EarlierStarted(s) ==
    \A t \in Registered : Index(t) < Index(s) => pc[t] # "scheduled"

\* Mutant of GatherReady: a join that is over when the first task is done
\* (asyncio.wait with FIRST_COMPLETED).
GatherReadyAny == \E s \in Registered : pc[s] = "done"

\* asyncio.gather's result is ready when every task is done.
GatherReady == \A s \in Registered : pc[s] = "done"

\* A collector before its cycle, with the registry keys.
CycleInit(keys) ==
    /\ registry = keys
    /\ pc = [s \in Registered |-> "new"]
    /\ req = [s \in Registered |-> [r \in Requests |-> "idle"]]
    /\ bundle = [s \in Registered |-> EmptyDict]
    /\ running = "none"
    /\ result = [phase |-> "idle", value |-> EmptyDict]
    /\ finished = <<>>
    /\ data = EmptyDict
    /\ clock = Now0
    /\ scores = NotCalled
    /\ prev = NotCalled
    /\ assessment = NotAnalyzed
    /\ CollectorIdle
    /\ OtherIdle

CollectInit ==
    /\ CycleInit(RegistryKeys(NumSuppliers))
    /\ hung = {}

\* tasks = [self.get_supplier_data(symbol) for symbol in ...]; gather(*tasks)
GetAllSuppliersData ==
    /\ result.phase = "idle"
    /\ result' = [result EXCEPT !.phase = "gathering"]
    /\ pc' = [s \in Registered |-> "scheduled"]
    /\ UNCHANGED <<registry, req, bundle, running, hung, finished, scoreVars,
                   col, otherVars>>

\* The task of s runs for the first time: it creates the weather and news
\* coroutines and calls get_stock_data, which blocks.
BeginStock(s) ==
    /\ result.phase = "gathering"
    /\ pc[s] = "scheduled"
    /\ running = "none"
    /\ EarlierStarted(s)
    /\ pc' = [pc EXCEPT ![s] = "stock"]
    /\ req' = [req EXCEPT ![s]["stock"] = "inflight"]
    /\ running' = s
    /\ UNCHANGED <<registry, bundle, result, hung, finished, scoreVars, col, otherVars>>

\* get_stock_data returns (its payload, or {} from its except clause); the
\* task creates the economic coroutine and awaits the weather coroutine,
\* which sends its request and suspends.
StockReturn(s, outcome) ==
    /\ pc[s] = "stock"
    /\ running = s
    /\ Answers(s, "stock")
    /\ Allowed(outcome)
    /\ bundle' = [bundle EXCEPT ![s] =
                    [stock_data |-> IF outcome = "ok" THEN StockPayload(s)
                                    ELSE EmptyDict]]
    /\ req' = [req EXCEPT ![s]["stock"] = outcome,
                          ![s]["weather"] = "inflight"]
    /\ pc' = [pc EXCEPT ![s] = "weather"]
    /\ running' = "none"
    /\ UNCHANGED <<registry, result, hung, finished, scoreVars, col, otherVars>>

\* The weather response arrives and the task resumes: get_weather_data
\* returns, and the task awaits the news coroutine, whose NewsAPI call
\* blocks.
WeatherResponse(s, outcome) ==
    /\ pc[s] = "weather"
    /\ running = "none"
    /\ AllStarted
    /\ Answers(s, "weather")
    /\ Allowed(outcome)
    /\ bundle' = [bundle EXCEPT ![s] =
                    [stock_data |-> bundle[s].stock_data,
                     weather_data |-> IF outcome = "ok" THEN WeatherPayload(s)
                                      ELSE EmptyDict]]
    /\ req' = [req EXCEPT ![s]["weather"] = outcome,
                          ![s]["news"] = "inflight"]
    /\ pc' = [pc EXCEPT ![s] = "news"]
    /\ running' = s
    /\ UNCHANGED <<registry, result, hung, finished, scoreVars, col, otherVars>>

\* The NewsAPI call returns (the articles, or [] from the except clause);
\* the task awaits the economic coroutine, which sends its first request.
NewsReturn(s, outcome) ==
    /\ pc[s] = "news"
    /\ running = s
    /\ Answers(s, "news")
    /\ Allowed(outcome)
    /\ bundle' = [bundle EXCEPT ![s] =
                    [stock_data |-> bundle[s].stock_data,
                     weather_data |-> bundle[s].weather_data,
                     news_data |-> IF outcome = "ok" THEN NewsPayload(s)
                                   ELSE <<>>,
                     economic_data |-> EmptyDict]]
    /\ req' = [req EXCEPT ![s]["news"] = outcome,
                          ![s][indicators[1]] = "inflight"]
    /\ pc' = [pc EXCEPT ![s] = indicators[1]]
    /\ running' = "none"
    /\ UNCHANGED <<registry, result, hung, finished, scoreVars, col, otherVars>>

\* return {'supplier_info': ..., ..., 'timestamp': ...}
Assemble(s, collected) ==
    [supplier_info |-> suppliers[s],
     weather_data |-> collected.weather_data,
     news_data |-> collected.news_data,
     stock_data |-> collected.stock_data,
     economic_data |-> collected.economic_data,
     timestamp |-> clock]

\* The response for indicator i arrives in get_world_bank_data: a 200 stores
\* the value, another status stores nothing, an exception ends the loop.
\* After the last indicator, or an exception, results is returned and
\* get_supplier_data returns the bundle.
IndicatorResponse(s, i, outcome) ==
    /\ pc[s] = indicators[i]
    /\ running = "none"
    /\ AllStarted
    /\ Answers(s, indicators[i])
    /\ Allowed(outcome)
    /\ LET results ==
               IF outcome = "ok"
               THEN bundle[s].economic_data @@
                    (indicators[i] :>
                        IndicatorValue(country_code(s), indicators[i]))
               ELSE bundle[s].economic_data
           collected == [bundle[s] EXCEPT !.economic_data = results]
           last == outcome = "error" \/ i = Len(indicators)
       IN  /\ bundle' = [bundle EXCEPT ![s] =
                            IF last THEN Assemble(s, collected) ELSE collected]
           /\ req' = IF last
                     THEN [req EXCEPT ![s][indicators[i]] = outcome]
                     ELSE [req EXCEPT ![s][indicators[i]] = outcome,
                                      ![s][indicators[i + 1]] = "inflight"]
           /\ pc' = [pc EXCEPT ![s] =
                        IF last THEN "done" ELSE indicators[i + 1]]
           /\ finished' = IF last THEN Append(finished, s) ELSE finished
    /\ UNCHANGED <<registry, running, result, hung, scoreVars, col, otherVars>>

\* dict(zip(keys, values))
Zip(keys, values) ==
    [k \in {keys[i] : i \in 1..Min(Len(keys), Len(values))} |->
        values[CHOOSE i \in 1..Min(Len(keys), Len(values)) :
                  /\ keys[i] = k
                  /\ \A j \in 1..Min(Len(keys), Len(values)) :
                        keys[j] = k => j <= i]]

\* Mutant of GatherResults: the results in the order the tasks finished
\* (asyncio.as_completed).
GatherResultsAsCompleted == [i \in 1..Len(finished) |-> bundle[finished[i]]]

\* asyncio.gather returns the results in the order of the awaitables it was
\* given, whatever order they finished in.
GatherResults == [i \in 1..Len(registry) |-> bundle[registry[i]]]

\* results = await asyncio.gather(*tasks)
\* return dict(zip(self.suppliers.keys(), results))
GatherReturn ==
    /\ result.phase = "gathering"
    /\ running = "none"
    /\ GatherReady
    /\ result' = [phase |-> "returned", value |-> Zip(registry, GatherResults)]
    /\ UNCHANGED <<registry, pc, req, bundle, running, hung, finished,
                   scoreVars, col, otherVars>>

\* A bundle of the returned map is handed to the scoring engine.
ScoreCollected(s) ==
    /\ result.phase = "returned"
    /\ s \in DOMAIN result.value
    /\ data' = result.value[s]
    /\ scores' = Called(calculate_overall_risk(result.value[s], clock))
    /\ prev' = NotCalled
    /\ UNCHANGED <<clock, assessment, collectVars, col, otherVars>>

CollectNext ==
    \/ GetAllSuppliersData
    \/ \E s \in Registered : BeginStock(s)
    \/ \E s \in Registered, o \in {"ok", "error"} : StockReturn(s, o)
    \/ \E s \in Registered, o \in {"ok", "non200", "error"} :
          WeatherResponse(s, o)
    \/ \E s \in Registered, o \in {"ok", "error"} : NewsReturn(s, o)
    \/ \E s \in Registered, i \in 1..Len(indicators),
          o \in {"ok", "non200", "error"} : IndicatorResponse(s, i, o)
    \/ GatherReturn

CollectSpec == CollectInit /\ [][CollectNext]_vars

\* The data flow from the orchestrator to the scoring engine: a cycle, then
\* calculate_overall_risk on the bundles it returned.
PipelineNext ==
    \/ CollectNext
    \/ \E s \in Registered : ScoreCollected(s)

PipelineSpec == CollectInit /\ [][PipelineNext]_vars

\* Cycles of collectors configured with any number of suppliers, none
\* included.
RegistryInit ==
    /\ \E n \in 0..NumSuppliers : CycleInit(RegistryKeys(n))
    /\ hung = {}

RegistrySpec == RegistryInit /\ [][CollectNext]_vars

\* A cycle in which the upstream never answers the requests in hung.
LiveCollectInit ==
    /\ CycleInit(RegistryKeys(NumSuppliers))
    /\ hung \in {h \in SUBSET AllRequests : Cardinality(h) <= MaxFailures}

\* The event loop keeps running its ready tasks, a blocking call that is
\* answered returns, and the upstream answers every request not in hung:
\* while some step of the cycle can be taken, one eventually is.
CollectFairness == WF_vars(CollectNext)

LiveCollectSpec == LiveCollectInit /\ [][CollectNext]_vars /\ CollectFairness

---------------------------------------------------------------------------
(* Properties of the collection cycle.                                     *)

Domains == {"stock_data", "weather_data", "news_data", "economic_data"}

DomainRequests(d) ==
    CASE d = "stock_data"    -> {"stock"}
      [] d = "weather_data"  -> {"weather"}
      [] d = "news_data"     -> {"news"}
      [] d = "economic_data" -> {indicators[i] : i \in 1..Len(indicators)}

\* The domain's fetch has been started: its first request has been sent.
DomainIssued(s, d) == \E r \in DomainRequests(d) : req[s][r] # "idle"

\* The domain's fetch is over: it returned its payload to get_supplier_data.
DomainCompleted(s, d) ==
    /\ DomainIssued(s, d)
    /\ \A r \in DomainRequests(d) : req[s][r] # "inflight"
    /\ d = "economic_data" =>
          \/ \E r \in DomainRequests(d) : req[s][r] = "error"
          \/ \A r \in DomainRequests(d) : Completed(s, r)

DomainInFlight(s, d) == \E r \in DomainRequests(d) : req[s][r] = "inflight"

FailedDomains ==
    {q \in Registered \X Domains :
        \E r \in DomainRequests(q[2]) : Failed(q[1], r)}

\* What a domain holds when every request of it succeeds.
Expected(s, d) ==
    CASE d = "stock_data"    -> StockPayload(s)
      [] d = "weather_data"  -> WeatherPayload(s)
      [] d = "news_data"     -> NewsPayload(s)
      [] d = "economic_data" ->
            [n \in DomainRequests(d) |-> IndicatorValue(country_code(s), n)]

\* What a domain's collector returns when nothing could be fetched.
IsDefaultPayload(d, payload) ==
    IF d = "news_data" THEN Len(payload) = 0 ELSE DOMAIN payload = {}

Assembled(s) == "supplier_info" \in DOMAIN bundle[s]

Returned == result.phase = "returned"

\* A failed fetch changes no other supplier's bundle and no other domain of
\* its own supplier's bundle, and the cycle returns one bundle per supplier.
FailureIsolated ==
    Returned =>
        /\ DOMAIN result.value = Registered
        /\ \A s \in Registered :
              /\ result.value[s].supplier_info = suppliers[s]
              /\ \A d \in Domains :
                    <<s, d>> \notin FailedDomains
                        => result.value[s][d] = Expected(s, d)

\* C3: when a single domain fetch of one supplier fails, the cycle returns a
\* bundle for every supplier, every other supplier's bundle and every other
\* domain of the failing supplier's bundle hold what was fetched, and the
\* failed domain holds its default payload.
C3_SingleFailureIsolated ==
    (Returned /\ Cardinality(FailedDomains) = 1) =>
        /\ FailureIsolated
        /\ \A q \in FailedDomains :
              IsDefaultPayload(q[2], result.value[q[1]][q[2]])

\* C4: all domain fetches of a supplier are issued before any of them is
\* awaited: once one of them has completed, every one has been issued.
C4_IssuedBeforeAwaited ==
    \A s \in Registered :
        (\E d \in Domains : DomainCompleted(s, d))
            => \A d \in Domains : DomainIssued(s, d)

\* What the code does instead: a supplier's fetches run one after the other.
OneFetchPerSupplierInFlight ==
    \A s \in Registered :
        Cardinality({d \in Domains : DomainInFlight(s, d)}) <= 1

\* C5: no fetch of one supplier has to wait for a fetch of another supplier
\* to finish: a task that asyncio.gather has created and that is next in
\* line can send its first fetch at once, whatever fetches of the other
\* suppliers are in flight.
C5_NoCrossSupplierWait ==
    \A t \in Registered :
        (result.phase = "gathering" /\ pc[t] = "scheduled" /\ EarlierStarted(t))
            => ENABLED BeginStock(t)

\* What the code does instead: the market-data fetches run in registry order.
StockSerialized ==
    \A s \in Registered, t \in Registered :
        (Index(s) < Index(t) /\ req[t]["stock"] # "idle")
            => Completed(s, "stock")

\* C6: a supplier's bundle is assembled only after every domain fetch of the
\* supplier has completed, and get_all_suppliers_data returns only after the
\* bundle of every supplier has been assembled.
C6_JoinPoints ==
    /\ \A s \in Registered :
          Assembled(s) => \A d \in Domains : DomainCompleted(s, d)
    /\ Returned =>
          /\ \A s \in Registered : Assembled(s)
          /\ DOMAIN result.value = Registered
          /\ \A s \in Registered : result.value[s] = bundle[s]

C6_Witness ==
    /\ Returned
    /\ \A s \in Registered : Assembled(s)

\* A request the upstream never answers has been sent.
HungIssued == \E q \in hung : req[q[1]][q[2]] = "inflight"

\* C7: if every issued fetch completes or fails, get_all_suppliers_data
\* eventually returns; once a fetch that never completes has been issued,
\* the cycle never returns, whatever the other suppliers' tasks have done.
C7_TerminatesIffFetchesDo ==
    /\ <>(HungIssued \/ Returned)
    /\ [](HungIssued => [](HungIssued /\ ~Returned))

C7_Witness ==
    /\ HungIssued
    /\ \E s \in Registered : pc[s] = "done"

\* C11: when the supplier registry is empty, a collection cycle fails with
\* an error: get_all_suppliers_data does not return a result map.
C11_EmptyRegistryFails ==
    registry = <<>> => result.phase # "returned"

\* What the code does instead: asyncio.gather of no tasks yields [], and the
\* cycle returns the empty map.
EmptyRegistryReturnsEmptyMap ==
    (registry = <<>> /\ Returned) => DOMAIN result.value = {}

\* The weather payload the orchestrator collected holds an active alert.
CollectedAlert(b) ==
    Len(Get(Get(b, "weather_data", EmptyDict), "alerts", <<>>)) > 0

\* C12: the evidence the orchestrator gathered reaches the scoring engine:
\* the scores calculate_overall_risk computes on a collected bundle depend
\* on the collected payloads; a collected active weather alert gives a
\* weather score of at least 0.8, above that of a bundle with no alert.
C12_EvidenceReachesScorer ==
    (Returned /\ scores.called /\ scores.exc = "none" /\ CollectedAlert(data))
        => scores.v["weather"] >= 8 * Tenth

\* What the code does instead: the orchestrator stores its payloads under
\* weather_data, news_data and economic_data, the scorer reads weather,
\* news and trade, and every collected bundle scores as the empty bundle.
CollectedScoresAsEmpty ==
    (Returned /\ scores.called)
        => scores = Called(calculate_overall_risk(EmptyDict, clock))

\* C13: the map get_all_suppliers_data returns has exactly one entry per
\* registered supplier, and the bundle under a supplier's key is the one
\* collected for that supplier (its supplier_info, its fetch results),
\* whatever order the suppliers' tasks finished in.
C13_OneEntryPerSupplier ==
    Returned =>
        /\ DOMAIN result.value = Registered
        /\ \A s \in Registered :
              /\ result.value[s].supplier_info = suppliers[s]
              /\ result.value[s] = bundle[s]

\* A returned cycle whose tasks finished in another order than the registry's.
C13_Witness ==
    /\ Returned
    /\ Len(finished) = Len(registry)
    /\ Len(finished) >= 2
    /\ finished[1] # registry[1]

---------------------------------------------------------------------------
(* The source collectors of api_collectors (and get_weather_data of        *)
(* RealTimeDataCollector), one call at a time.  col.payload is the value   *)
(* the call is building, col.failed records that some upstream request of  *)
(* the call did not succeed.                                               *)

MaxItems == 2

CollectorKinds == {"weather", "rt_weather", "disasters", "trade", "news"}

Outcomes == {"ok", "non200", "error"}

trade_indicators == <<"trade", "manufacturing", "logistics">>

\* The One Call responses the model draws from.
OneCallResponses ==
    { [alerts |-> a, daily |-> <<[main |-> m]>>, current |-> [temp |-> t]] :
        a \in {<<>>, <<"Typhoon warning">>}, m \in {"Clear", "Thunderstorm"},
        t \in {20, 40} }

\* WeatherCollector.get_weather_data on a 200 response.
weather_payload(response) ==
    LET alerts == Get(response, "alerts", <<>>)
        daily == Get(response, "daily", <<>>)
        current == Get(response, "current", EmptyDict)
        risk_condition ==
            IF Len(alerts) > 0 THEN "extreme_weather"
            ELSE IF \E i \in 1..Min(Len(daily), 3) :
                       Lower(Get(daily[i], "main", ""))
                           \in {"thunderstorm", "tornado", "hurricane"}
            THEN "extreme_weather"
            ELSE IF Get(current, "temp", 20) > 35 \/ Get(current, "temp", 20) < 0
            THEN "extreme_weather"
            ELSE "normal"
    IN  [condition |-> risk_condition,
         temperature |-> Get(current, "temp", 20),
         alerts |-> alerts,
         forecast |-> SubSeq(daily, 1, Min(Len(daily), 5))]

\* RealTimeDataCollector.get_weather_data on a 200 response.
rt_weather_payload(response) ==
    [current |-> Get(response, "current", EmptyDict),
     alerts |-> Get(response, "alerts", <<>>),
     daily_forecast |->
        SubSeq(Get(response, "daily", <<>>), 1,
               Min(Len(Get(response, "daily", <<>>)), 5))]

\* The i-th item of the GDACS feed: its date is the RSS pubDate.
GdacsAlert(i) ==
    [source |-> "GDACS", title |-> Some({"Earthquake"}),
     date |-> Some([fmt |-> "rfc822", t |-> i])]

\* The i-th EONET event: its date carries a UTC designator.
EonetAlert(i) ==
    [source |-> "NASA EONET", title |-> Some({"wildfire"}),
     date |-> Some([fmt |-> "iso_z", t |-> i])]

NewsApiItem(i) ==
    [source |-> "NewsAPI", title |-> Some({"shortage"}), description |-> None]

GtaItem(i) ==
    [source |-> "GTA", title |-> Some({"tariff"}), description |-> None]

\* The first n items of a feed, appended one by one.
RECURSIVE Items(_, _)
Items(kind, n) ==
    IF n = 0 THEN <<>>
    ELSE Append(Items(kind, n - 1),
                CASE kind = "gdacs"   -> GdacsAlert(n)
                  [] kind = "eonet"   -> EonetAlert(n)
                  [] kind = "newsapi" -> NewsApiItem(n)
                  [] kind = "gta"     -> GtaItem(n))

FirstStep(kind) ==
    CASE kind = "weather"    -> "onecall"
      [] kind = "rt_weather" -> "onecall"
      [] kind = "disasters"  -> "gdacs"
      [] kind = "trade"      -> trade_indicators[1]
      [] kind = "news"       -> "newsapi"

InitialPayload(kind) ==
    CASE kind = "weather"    -> EmptyDict
      [] kind = "rt_weather" -> EmptyDict
      [] kind = "disasters"  -> <<>>
      [] kind = "trade"      -> EmptyDict
      [] kind = "news"       -> <<>>

CollectorInit ==
    /\ col = [pc |-> "idle"]
    /\ data = EmptyDict
    /\ clock = Now0
    /\ scores = NotCalled
    /\ prev = NotCalled
    /\ assessment = NotAnalyzed
    /\ CollectIdle
    /\ OtherIdle

\* A collector method is called.
CallCollector(kind) ==
    /\ col.pc = "idle"
    /\ col' = [pc |-> FirstStep(kind), kind |-> kind,
               payload |-> InitialPayload(kind), failed |-> FALSE]
    /\ UNCHANGED <<scoreVars, collectVars, otherVars>>

Return(payload, failed) ==
    col' = [col EXCEPT !.pc = "returned", !.payload = payload,
                       !.failed = failed]

\* WeatherCollector.get_weather_data
WeatherCollectorResponse(outcome, response) ==
    /\ col.pc = "onecall" /\ col.kind = "weather"
    /\ IF outcome = "ok"
       THEN Return(weather_payload(response), FALSE)
       ELSE Return([condition |-> "normal"], TRUE)
    /\ UNCHANGED <<scoreVars, collectVars, otherVars>>

\* RealTimeDataCollector.get_weather_data
RtWeatherResponse(outcome, response) ==
    /\ col.pc = "onecall" /\ col.kind = "rt_weather"
    /\ IF outcome = "ok"
       THEN Return(rt_weather_payload(response), FALSE)
       ELSE Return(EmptyDict, TRUE)
    /\ UNCHANGED <<scoreVars, collectVars, otherVars>>

\* DisasterCollector.get_disaster_alerts, the GDACS request: n items are
\* appended; with outcome "error" an exception follows them (a request or
\* parse error when n = 0, an item without title or pubDate otherwise).
GdacsResponse(outcome, n) ==
    /\ col.pc = "gdacs"
    /\ outcome = "non200" => n = 0
    /\ IF outcome = "error"
       THEN Return(col.payload \o Items("gdacs", n), TRUE)
       ELSE col' = [col EXCEPT !.pc = "eonet",
                               !.payload = col.payload \o Items("gdacs", n),
                               !.failed = (outcome # "ok")]
    /\ UNCHANGED <<scoreVars, collectVars, otherVars>>

\* DisasterCollector.get_disaster_alerts, the EONET request.
EonetResponse(outcome, n) ==
    /\ col.pc = "eonet"
    /\ outcome = "non200" => n = 0
    /\ Return(col.payload \o Items("eonet", n),
              col.failed \/ outcome # "ok")
    /\ UNCHANGED <<scoreVars, collectVars, otherVars>>

\* TradeDataCollector.get_trade_data, the request for indicator i: value is
\* the indicator's value (None when the World Bank holds null).
TradeIndicatorResponse(i, outcome, value) ==
    /\ col.pc = trade_indicators[i] /\ col.kind = "trade"
    /\ outcome # "ok" => value = None
    /\ LET stored == IF outcome = "ok"
                     THEN col.payload @@ (trade_indicators[i] :> value)
                     ELSE col.payload
           failed == col.failed \/ outcome # "ok"
       IN  IF outcome = "error" \/ i = Len(trade_indicators)
           THEN Return(stored, failed)
           ELSE col' = [col EXCEPT !.pc = trade_indicators[i + 1],
                                   !.payload = stored, !.failed = failed]
    /\ UNCHANGED <<scoreVars, collectVars, otherVars>>

\* NewsCollector.get_supply_chain_news, the NewsAPI call.
NewsApiReturn(outcome, n) ==
    /\ col.pc = "newsapi"
    /\ outcome # "non200"
    /\ outcome = "error" => n = 0
    /\ IF outcome = "error"
       THEN Return(col.payload, TRUE)
       ELSE col' = [col EXCEPT !.pc = "gta",
                               !.payload = col.payload \o Items("newsapi", n)]
    /\ UNCHANGED <<scoreVars, collectVars, otherVars>>

\* NewsCollector.get_supply_chain_news, the Global Trade Alert request.
GtaResponse(outcome, n) ==
    /\ col.pc = "gta"
    /\ outcome # "ok" => n = 0
    /\ Return(col.payload \o Items("gta", n), col.failed \/ outcome # "ok")
    /\ UNCHANGED <<scoreVars, collectVars, otherVars>>

CollectorNext ==
    \/ \E k \in CollectorKinds : CallCollector(k)
    \/ \E o \in Outcomes, r \in OneCallResponses :
          WeatherCollectorResponse(o, r)
    \/ \E o \in Outcomes, r \in OneCallResponses : RtWeatherResponse(o, r)
    \/ \E o \in Outcomes, n \in 0..MaxItems : GdacsResponse(o, n)
    \/ \E o \in Outcomes, n \in 0..MaxItems : EonetResponse(o, n)
    \/ \E i \in 1..Len(trade_indicators), o \in Outcomes,
          v \in {None, Some(30), Some(60)} : TradeIndicatorResponse(i, o, v)
    \/ \E o \in Outcomes, n \in 0..MaxItems : NewsApiReturn(o, n)
    \/ \E o \in Outcomes, n \in 0..MaxItems : GtaResponse(o, n)

CollectorSpec == CollectorInit /\ [][CollectorNext]_vars

\* The documented default payload of a collector.
IsDocumentedDefault(kind, payload) ==
    CASE kind \in {"weather", "rt_weather"} ->
            /\ DOMAIN payload = {"condition"}
            /\ payload.condition = "normal"
      [] kind \in {"disasters", "news"} -> Len(payload) = 0
      [] kind = "trade" -> DOMAIN payload = {}

\* C10: a collector whose fetch failed at any point of its work returns
\* exactly its documented default payload (weather {condition: normal}, news
\* the empty list, trade indicators the empty map), never a partly filled
\* one.
C10_FailedFetchReturnsDefault ==
    (col.pc = "returned" /\ col.failed)
        => IsDocumentedDefault(col.kind, col.payload)

\* What holds of the one collector that substitutes its default.
WeatherCollectorDefaults ==
    (col.pc = "returned" /\ col.failed /\ col.kind = "weather")
        => IsDocumentedDefault(col.kind, col.payload)

---------------------------------------------------------------------------
(* DatabaseManager (db_operations.py): the tables of supply_chain.db and   *)
(* the methods that write and read them.  A table is the sequence of its   *)
(* rows in insertion order, the id of a row is its position; a method      *)
(* adds its row and commits in one step.                                   *)

MaxCalls == 2

\* json.dumps: the text of a value, not the value.
JsonDumps(x) == [json |-> x]

\* The names bound in db_operations.py at module level: its imports and its
\* classes.
ModuleNames ==
    {"create_engine", "Column", "Integer", "String", "Float", "DateTime",
     "JSON", "ForeignKey", "declarative_base", "sessionmaker", "relationship",
     "datetime", "json", "Dict", "List", "Optional", "os", "load_dotenv",
     "Base", "Supplier", "Component", "SupplierComponent", "RiskAssessment",
     "DisruptionEvent", "DatabaseManager"}

\* The dict analyze_supplier returns, key by key.
ReturnedRecord(a) ==
    [risk_scores |-> a.risk_scores, risk_category |-> a.risk_category,
     recommendations |-> a.recommendations, timestamp |-> a.timestamp,
     raw_data |-> a.raw_data]

\* What a caller hands to add_risk_assessment: the record of analyze_supplier
\* as it is, or that record with the supplier's id put in.
AssessmentInputs ==
    IF assessment.called /\ assessment.exc = "none"
    THEN {ReturnedRecord(assessment)}
         \cup {("supplier_id" :> sid) @@ ReturnedRecord(assessment) :
                  sid \in 1..2}
    ELSE {}

\* A method returns ret or lets exc escape.
Answer(op, args, exc, ret) ==
    call' = [n |-> call.n + 1, op |-> op, args |-> args, exc |-> exc,
             ret |-> ret]

\* .order_by(column.desc()): the rows by falling value of the column, rows
\* of equal value in insertion order.
RECURSIVE OrderByDesc(_, _)
OrderByDesc(rows, column) ==
    IF rows = {} THEN <<>>
    ELSE LET first == CHOOSE r \in rows :
                          \A q \in rows :
                              \/ q[column] < r[column]
                              \/ (q[column] = r[column] /\ q.id >= r.id)
         IN  <<first>> \o OrderByDesc(rows \ {first}, column)

AddSupplier(supplier_data) ==
    /\ call.n < MaxCalls
    /\ IF {"name", "location_name"} \subseteq DOMAIN supplier_data
       THEN LET supplier ==
                    [id |-> Len(db.suppliers) + 1,
                     name |-> supplier_data["name"],
                     location_name |-> supplier_data["location_name"],
                     latitude |-> Get(supplier_data, "latitude", None),
                     longitude |-> Get(supplier_data, "longitude", None),
                     tier |-> Get(supplier_data, "tier", 1),
                     created_at |-> clock, updated_at |-> clock]
            IN  /\ db' = [db EXCEPT !.suppliers = Append(@, supplier)]
                /\ Answer("add_supplier", supplier_data, "none", <<supplier>>)
       ELSE /\ db' = db
            /\ Answer("add_supplier", supplier_data, "KeyError", <<>>)
    /\ UNCHANGED <<scoreVars, collectVars, col, label, risk, app>>

AddComponent(component_data) ==
    /\ call.n < MaxCalls
    /\ IF "name" \in DOMAIN component_data
       THEN LET component ==
                    [id |-> Len(db.components) + 1,
                     name |-> component_data["name"],
                     description |-> Get(component_data, "description", None),
                     category |-> Get(component_data, "category", None),
                     critical_flag |-> Get(component_data, "critical_flag", 0),
                     created_at |-> clock]
            IN  /\ db' = [db EXCEPT !.components = Append(@, component)]
                /\ Answer("add_component", component_data, "none",
                          <<component>>)
       ELSE /\ db' = db
            /\ Answer("add_component", component_data, "KeyError", <<>>)
    /\ UNCHANGED <<scoreVars, collectVars, col, label, risk, app>>

LinkSupplierComponent(supplier_id, component_id, lead_time, unit_cost, moq) ==
    /\ call.n < MaxCalls
    /\ LET link == [id |-> Len(db.supplier_components) + 1,
                    supplier_id |-> supplier_id,
                    component_id |-> component_id,
                    lead_time_days |-> lead_time, unit_cost |-> unit_cost,
                    minimum_order_quantity |-> moq]
       IN  /\ db' = [db EXCEPT !.supplier_components = Append(@, link)]
           /\ Answer("link_supplier_component", <<supplier_id, component_id>>,
                     "none", <<link>>)
    /\ UNCHANGED <<scoreVars, collectVars, col, label, risk, app>>

\* Mutant of AddRiskAssessment: the supplier's latest assessment, when there
\* is one, is overwritten instead of a row being added.
AddRiskAssessmentUpsert(assessment_data) ==
    /\ call.n < MaxCalls
    /\ "supplier_id" \in DOMAIN assessment_data
    /\ LET risk_scores == assessment_data["risk_scores"]
           own == {i \in 1..Len(db.risk_assessments) :
                      db.risk_assessments[i].supplier_id =
                          assessment_data["supplier_id"]}
           at == IF own = {} THEN Len(db.risk_assessments) + 1
                 ELSE CHOOSE i \in own : \A j \in own : j <= i
           row == [id |-> at,
                   supplier_id |-> assessment_data["supplier_id"],
                   timestamp |-> clock,
                   weather_risk |-> risk_scores["weather"],
                   political_risk |-> risk_scores["political"],
                   economic_risk |-> risk_scores["economic"],
                   supply_risk |-> risk_scores["supply"],
                   demand_risk |-> risk_scores["demand"],
                   overall_risk |-> risk_scores["overall"],
                   raw_data |-> JsonDumps(assessment_data["raw_data"]),
                   recommendations |->
                       JsonDumps(assessment_data["recommendations"])]
       IN  /\ db' = [db EXCEPT !.risk_assessments =
                        IF own = {} THEN Append(@, row)
                        ELSE [@ EXCEPT ![at] = row]]
           /\ Answer("add_risk_assessment", assessment_data, "none", <<row>>)
    /\ UNCHANGED <<scoreVars, collectVars, col, label, risk, app>>

AddRiskAssessment(assessment_data) ==
    /\ call.n < MaxCalls
    /\ IF /\ "supplier_id" \in DOMAIN assessment_data
          /\ "risk_scores" \in DOMAIN assessment_data
          /\ (ScoreNames \ {"news_sentiment"})
                 \subseteq DOMAIN assessment_data["risk_scores"]
       THEN LET risk_scores == assessment_data["risk_scores"]
                row == [id |-> Len(db.risk_assessments) + 1,
                        supplier_id |-> assessment_data["supplier_id"],
                        \* default=datetime.utcnow
                        timestamp |-> clock,
                        weather_risk |-> risk_scores["weather"],
                        political_risk |-> risk_scores["political"],
                        economic_risk |-> risk_scores["economic"],
                        supply_risk |-> risk_scores["supply"],
                        demand_risk |-> risk_scores["demand"],
                        overall_risk |-> risk_scores["overall"],
                        raw_data |->
                            JsonDumps(Get(assessment_data, "raw_data",
                                          EmptyDict)),
                        recommendations |->
                            JsonDumps(Get(assessment_data, "recommendations",
                                          <<>>))]
            IN  /\ db' = [db EXCEPT !.risk_assessments = Append(@, row)]
                /\ Answer("add_risk_assessment", assessment_data, "none",
                          <<row>>)
       ELSE /\ db' = db
            /\ Answer("add_risk_assessment", assessment_data, "KeyError",
                      <<>>)
    /\ UNCHANGED <<scoreVars, collectVars, col, label, risk, app>>

AddDisruptionEvent(event_data) ==
    /\ call.n < MaxCalls
    /\ IF {"type", "severity", "start_date", "description"}
              \subseteq DOMAIN event_data
       THEN LET event ==
                    [id |-> Len(db.disruption_events) + 1,
                     type |-> event_data["type"],
                     severity |-> event_data["severity"],
                     start_date |-> event_data["start_date"],
                     end_date |-> None,
                     description |-> event_data["description"],
                     affected_suppliers |->
                         JsonDumps(Get(event_data, "affected_suppliers", <<>>)),
                     affected_components |->
                         JsonDumps(Get(event_data, "affected_components",
                                       <<>>)),
                     mitigation_steps |->
                         JsonDumps(Get(event_data, "mitigation_steps", <<>>)),
                     created_at |-> clock]
            IN  /\ db' = [db EXCEPT !.disruption_events = Append(@, event)]
                /\ Answer("add_disruption_event", event_data, "none",
                          <<event>>)
       ELSE /\ db' = db
            /\ Answer("add_disruption_event", event_data, "KeyError", <<>>)
    /\ UNCHANGED <<scoreVars, collectVars, col, label, risk, app>>

\* The first statement names timedelta, which the module does not bind.
get_supplier_risk_history(rows, supplier_id, days, now) ==
    IF "timedelta" \notin ModuleNames THEN Raise("NameError")
    ELSE LET from_date == now - days * TicksPerDay
         IN  Ok(OrderByDesc({r \in rows : /\ r.supplier_id = supplier_id
                                          /\ r.timestamp >= from_date},
                            "timestamp"))

GetSupplierRiskHistory(supplier_id, days) ==
    /\ call.n < MaxCalls
    /\ LET r == get_supplier_risk_history({db.risk_assessments[i] : i \in DOMAIN db.risk_assessments},
                                          supplier_id, days, clock)
       IN  Answer("get_supplier_risk_history",
                  [supplier_id |-> supplier_id, days |-> days, now |-> clock,
                   rows |-> Len(db.risk_assessments)],
                  r.exc, r.v)
    /\ UNCHANGED <<db, scoreVars, collectVars, col, label, risk, app>>

GetActiveDisruptions ==
    /\ call.n < MaxCalls
    /\ Answer("get_active_disruptions", <<>>, "none",
              OrderByDesc({e \in {db.disruption_events[i] : i \in DOMAIN db.disruption_events} :
                              e.end_date = None}, "severity"))
    /\ UNCHANGED <<db, scoreVars, collectVars, col, label, risk, app>>

GetCriticalComponents ==
    /\ call.n < MaxCalls
    /\ Answer("get_critical_components", <<>>, "none",
              {c \in {db.components[i] : i \in DOMAIN db.components} : c.critical_flag = 1})
    /\ UNCHANGED <<db, scoreVars, collectVars, col, label, risk, app>>

GetSupplierComponents(supplier_id) ==
    /\ call.n < MaxCalls
    /\ Answer("get_supplier_components", <<supplier_id>>, "none",
              {l \in {db.supplier_components[i] : i \in DOMAIN db.supplier_components} :
                  l.supplier_id = supplier_id})
    /\ UNCHANGED <<db, scoreVars, collectVars, col, label, risk, app>>

\* session.close(): the tables stay, and the session can be used again.
Close ==
    /\ call.n < MaxCalls
    /\ Answer("close", <<>>, "none", <<>>)
    /\ UNCHANGED <<db, scoreVars, collectVars, col, label, risk, app>>

\* A scorer and a database manager side by side: the bundle is empty or
\* holds one weather alert.
DbInit ==
    /\ data \in {EmptyDict, [weather |-> [alerts |-> <<"Flood watch">>]]}
    /\ clock = Now0
    /\ scores = NotCalled
    /\ prev = NotCalled
    /\ assessment = NotAnalyzed
    /\ CollectIdle
    /\ CollectorIdle
    /\ OtherIdle

DbNext ==
    \/ Tick
    \/ AnalyzeSupplier
    \/ \E supplier_data \in
              {[name |-> "TSMC", location_name |-> "Hsinchu"],
               [name |-> "TSMC"]} : AddSupplier(supplier_data)
    \/ AddComponent([name |-> "wafer", critical_flag |-> 1])
    \/ LinkSupplierComponent(1, 1, 30, 100, 10)
    \/ \E assessment_data \in AssessmentInputs :
          AddRiskAssessment(assessment_data)
    \/ AddDisruptionEvent([type |-> "weather", severity |-> 3,
                           start_date |-> clock, description |-> "typhoon"])
    \/ \E supplier_id \in 1..2, days \in {1, 30} :
          GetSupplierRiskHistory(supplier_id, days)
    \/ GetActiveDisruptions
    \/ GetCriticalComponents
    \/ GetSupplierComponents(1)
    \/ Close

DbSpec == DbInit /\ [][DbNext]_vars

\* C24: add_risk_assessment only inserts: a call that returns has added
\* exactly one record after the records already stored and changed none
\* of them, a call that raises has changed nothing, and no operation of the
\* manager changes or removes a stored assessment: the history only grows.
C24_InsertOnly ==
    [][LET before == db.risk_assessments
           after == db'.risk_assessments
       IN  /\ Len(after) >= Len(before)
           /\ SubSeq(after, 1, Len(before)) = before
           /\ (call'.n # call.n /\ call'.op = "add_risk_assessment") =>
                  IF call'.exc = "none"
                  THEN /\ Len(after) = Len(before) + 1
                       /\ after[Len(after)] = call'.ret[1]
                  ELSE after = before]_vars

\* Two assessments of the same supplier are stored side by side.
C24_Witness ==
    /\ Len(db.risk_assessments) >= 2
    /\ db.risk_assessments[1].supplier_id = db.risk_assessments[2].supplier_id
    /\ db.risk_assessments[1].timestamp < db.risk_assessments[2].timestamp
    /\ call.op = "add_risk_assessment"

\* The stored assessments of a supplier dated within the days days before
\* now, among the first n rows.
InHistory(r, args) ==
    /\ r.id <= args.rows
    /\ r.supplier_id = args.supplier_id
    /\ r.timestamp >= args.now - args.days * TicksPerDay

\* C25: get_supplier_risk_history(supplier_id, days) returns a list and does
\* not fail; the list holds exactly that supplier's assessments of the last
\* days days, none of another supplier, the newest first.
C25_HistoryOfSupplier ==
    call.op = "get_supplier_risk_history" =>
        /\ call.exc = "none"
        /\ \A i \in 1..Len(call.ret) : InHistory(call.ret[i], call.args)
        /\ \A r \in {db.risk_assessments[i] : i \in DOMAIN db.risk_assessments} :
               InHistory(r, call.args) =>
                   \E i \in 1..Len(call.ret) : call.ret[i] = r
        /\ \A i, j \in 1..Len(call.ret) :
               i < j => call.ret[i].timestamp >= call.ret[j].timestamp

\* C26: a record of analyze_supplier carries the identifier of its subject,
\* the score set, the recommendations, the time it was made and the bundle
\* it came from, equal to the input; add_risk_assessment takes the record as
\* it is.
C26_RecordIsPersistable ==
    /\ (assessment.called /\ assessment.exc = "none") =>
           /\ {"supplier_id", "risk_scores", "recommendations", "timestamp",
               "raw_data"} \subseteq DOMAIN ReturnedRecord(assessment)
           /\ ReturnedRecord(assessment)["raw_data"] = data
    /\ (/\ call.op = "add_risk_assessment"
        /\ call.args = ReturnedRecord(assessment))
           => call.exc = "none"

\* What does hold of the record: scores, recommendations, time and bundle.
RecordWithoutSubject ==
    (assessment.called /\ assessment.exc = "none") =>
        /\ DOMAIN ReturnedRecord(assessment) =
               {"risk_scores", "risk_category", "recommendations", "timestamp",
                "raw_data"}
        /\ ReturnedRecord(assessment)["raw_data"] = data

---------------------------------------------------------------------------
(* The dashboard (streamlit_app.py).  Streamlit runs the script from the   *)
(* top on the first load and after every interaction with a widget; a run  *)
(* reads the widgets, passes the auto-refresh block, dispatches on the     *)
(* selected page and ends after the footer.  st.experimental_rerun() stops *)
(* the run where it is called and asks for a new one.  The pages other     *)
(* than 'Getting Started' and 'Market Data' score the collected bundles    *)
(* with RealTimeDataCollector.calculate_risk_score.                        *)

MaxAlerts == 6

Pages ==
    {"Getting Started", "Dashboard Overview", "Supplier Analysis",
     "Market Data", "Risk Assessment", "Alerts"}

\* RealTimeDataCollector.calculate_risk_score.  Prices are integers and a
\* relative change is counted in thousandths; the bundles are chosen so that
\* the quotients are exact.  nan stands for the float NaN, which
\* pandas gives as the deviation of fewer than two changes.
calculate_risk_score(supplier_data) ==
    LET nan == 0 - 1
        weather_data == Get(supplier_data, "weather_data", EmptyDict)
        weather_risk == Len(Get(weather_data, "alerts", <<>>)) * 2 * Tenth
        stock_data == Get(supplier_data, "stock_data", EmptyDict)
        price_history == Get(stock_data, "price_history", <<>>)
        n == Len(price_history) - 1
        \* pd.Series(price_history).pct_change(), without its leading NaN
        pct_change ==
            [i \in 1..n |->
                ((price_history[i + 1] - price_history[i]) * 1000)
                    \div price_history[i]]
        RECURSIVE Sum(_, _)
        Sum(f, i) == IF i = 0 THEN 0 ELSE f[i] + Sum(f, i - 1)
        mean == Sum(pct_change, n) \div n
        variance ==
            Sum([i \in 1..n |-> (pct_change[i] - mean) * (pct_change[i] - mean)],
                n) \div (n - 1)
        \* .std(), in thousandths
        price_volatility ==
            CHOOSE r \in 0..1000 : r * r <= variance /\ variance < (r + 1) * (r + 1)
        financial_risk ==
            IF DOMAIN stock_data # {} /\ Len(price_history) > 0
            THEN IF n < 2 THEN nan
                 ELSE Min(price_volatility * 10 * (Unit \div 1000), Unit)
            ELSE 5 * Tenth
        news_data == Get(supplier_data, "news_data", <<>>)
        total_articles == Len(news_data)
        risk_mentions ==
            Cardinality({i \in 1..total_articles :
                \E keyword \in {"disruption", "shortage", "delay", "problem",
                                "issue", "risk"} :
                    \/ KeywordIn(keyword, TextOf(news_data[i], "title"))
                    \/ KeywordIn(keyword, TextOf(news_data[i], "description"))})
        news_risk ==
            IF total_articles > 0
            THEN Min((risk_mentions * Unit) \div total_articles, Unit)
            ELSE 0
        economic_data == Get(supplier_data, "economic_data", EmptyDict)
        \* the indicators are whole percents
        inflation_risk ==
            Min(Max(Indicator(economic_data, "inflation", 0), 0) * Tenth, Unit)
        gdp_risk ==
            Unit - Min(Max(Indicator(economic_data, "gdp_growth", 0), 0) * Tenth,
                       Unit)
        economic_risk ==
            IF DOMAIN economic_data # {} THEN (inflation_risk + gdp_risk) \div 2
            ELSE 5 * Tenth
        overall_risk ==
            IF financial_risk = nan THEN nan
            ELSE (weather_risk + financial_risk + news_risk + economic_risk)
                     \div 4
    IN  IF \/ IndicatorError(economic_data, "inflation") # "none"
           \/ IndicatorError(economic_data, "gdp_growth") # "none"
        THEN Raise("TypeError")
        ELSE Ok([weather_risk |-> weather_risk,
                 financial_risk |-> financial_risk, news_risk |-> news_risk,
                 economic_risk |-> economic_risk,
                 overall_risk |-> overall_risk])

\* Bundles as get_supplier_data builds them: the alerts of the weather
\* service, the price history, the articles and the two indicators.
CollectedBundles ==
    { [weather_data |-> [alerts |-> [i \in 1..a |-> "Typhoon warning"]],
       stock_data |-> stock, news_data |-> news, economic_data |-> economic] :
        a \in 0..MaxAlerts,
        stock \in {EmptyDict, [price_history |-> <<100, 101>>],
                   [price_history |-> <<200, 200, 210, 231>>],
                   [price_history |-> <<100, 90, 90, 99>>]},
        news \in {<<>>,
                  << [title |-> Some({"TSMC", "shortage"}),
                      description |-> None],
                     [title |-> Some({"earnings"})] >>},
        economic \in {EmptyDict,
                      [gdp_growth |-> Some(3), inflation |-> Some(2)],
                      [gdp_growth |-> Some(2), inflation |-> None],
                      [gdp_growth |-> Some(0 - 1), inflation |-> Some(15)]} }

AppInit ==
    /\ data = EmptyDict
    /\ clock = Now0
    /\ scores = NotCalled
    /\ prev = NotCalled
    /\ assessment = NotAnalyzed
    /\ CollectIdle
    /\ CollectorIdle
    /\ OtherIdle

\* The user picks a view in the sidebar; Streamlit stops a run that is under
\* way and asks for a new one.
SelectPage(p) ==
    /\ app.pc \in {"dispatch", "rerun", "done"}
    /\ p # app.page
    /\ app' = [app EXCEPT !.page = p, !.pc = "changed"]
    /\ UNCHANGED <<scoreVars, collectVars, col, label, db, call, risk>>

\* The user ticks or unticks 'Auto-refresh data (30s)', which the latest run
\* has drawn.
ToggleAutoRefresh ==
    /\ app.pc \in {"dispatch", "rerun", "done"}
    /\ app.page # "Getting Started"
    /\ app' = [app EXCEPT !.auto_refresh = ~@, !.pc = "changed"]
    /\ UNCHANGED <<scoreVars, collectVars, col, label, db, call, risk>>

\* A run from the top of the script through the auto-refresh block: with
\* the box ticked st.experimental_rerun() ends the run there.  A run that
\* does not draw the box forgets its state.
StartRun ==
    /\ app.pc \in {"idle", "changed", "rerun"}
    /\ app' = [app EXCEPT
                  !.rendered = "none",
                  !.auto_refresh = app.page # "Getting Started" /\ @,
                  !.pc = IF app.page # "Getting Started" /\ app.auto_refresh
                         THEN "rerun" ELSE "dispatch"]
    /\ UNCHANGED <<scoreVars, collectVars, col, label, db, call, risk>>

\* The page dispatch and the footer: the selected page is drawn, and a page
\* that scores does so on the bundles it has collected.
RenderPage(supplier_data) ==
    /\ app.pc = "dispatch"
    /\ app' = [app EXCEPT !.rendered = app.page, !.pc = "done"]
    /\ risk' = IF app.page \in {"Getting Started", "Market Data"} THEN risk
               ELSE Called(calculate_risk_score(supplier_data))
    /\ UNCHANGED <<scoreVars, collectVars, col, label, db, call>>

AppNext ==
    \/ \E p \in Pages : SelectPage(p)
    \/ ToggleAutoRefresh
    \/ StartRun
    \/ \E supplier_data \in CollectedBundles : RenderPage(supplier_data)

AppSpec == AppInit /\ [][AppNext]_vars

\* C29: every score of calculate_risk_score (weather_risk, financial_risk,
\* news_risk, economic_risk, overall_risk) lies in [0,1] for every supplier
\* bundle, whatever the number of alerts, and overall_risk is the arithmetic
\* mean of the four category scores.
C29_DashboardScoresInUnitInterval ==
    (risk.called /\ risk.exc = "none") =>
        /\ \A k \in DOMAIN risk.v : InUnitInterval(risk.v[k])
        /\ 4 * risk.v["overall_risk"] =
               risk.v["weather_risk"] + risk.v["financial_risk"]
               + risk.v["news_risk"] + risk.v["economic_risk"]

\* What holds of the scores the code does bound.
BoundedDashboardScores ==
    (risk.called /\ risk.exc = "none") =>
        /\ InUnitInterval(risk.v["news_risk"])
        /\ InUnitInterval(risk.v["economic_risk"])
        /\ risk.v["financial_risk"] <= Unit
        /\ risk.v["weather_risk"] >= 0

\* C30: with 'Auto-refresh data (30s)' ticked on a page other than 'Getting
\* Started', a run reaches the page dispatch and draws the selected page
\* before the next refresh is triggered: when the refresh ends a run, the
\* run has drawn the page.
C30_RenderedBeforeRefresh ==
    app.pc = "rerun" => app.rendered = app.page

\* What the code does instead: a run that finds the box ticked never draws
\* a page, and only a run without auto-refresh does.
NeverRenderedWithAutoRefresh ==
    /\ app.pc = "rerun" => app.rendered = "none"
    /\ app.pc = "done" =>
           /\ app.rendered = app.page
           /\ app.page = "Getting Started" \/ ~app.auto_refresh

=============================================================================
